---------------------------- MODULE Spec2Model ----------------------------
(***************************************************************************)
(* Forecast distribution engine of the planning dashboard:                 *)
(*   modules/revenue.py   month_range, build_distribution_weights,         *)
(*                        distribute_quantity, build_campaign_forecast,    *)
(*                        campaign_totals                                  *)
(*   modules/products.py  unit economics of a Product                      *)
(*   modules/opex.py      expand_opex_for_campaign                         *)
(*                                                                         *)
(* Numbers.  The code computes in binary floating point; the model         *)
(* computes in exact rationals <<numerator, denominator>> kept in lowest   *)
(* terms with a positive denominator.  Sums that the code reaches only up  *)
(* to rounding (1e-9 on weights, 1e-6 on quantities) are exact here.       *)
(*                                                                         *)
(* Strings.  A month label "YYYY-MM" is the sequence of its seven          *)
(* character codes, so that the code's string comparisons (<=) are the     *)
(* lexicographic comparisons of the model.                                 *)
(*                                                                         *)
(* Optional values.  None is [tag |-> "none"], a present value v is        *)
(* [tag |-> "some", val |-> v].  A dict is a function on its keys; where   *)
(* the code iterates a dict, the model carries the dict's items in         *)
(* insertion order as a sequence.                                          *)
(*                                                                         *)
(* Requests.  Every access to the store is one blocking                    *)
(* supabase...execute(), outside any transaction, and no function undoes   *)
(* what an earlier request of it wrote.  A function of campaign_db,        *)
(* opex_db or scenarios_db and build_scenario_forecast take one step per   *)
(* request; a request that the store does not answer raises, which ends    *)
(* the function (only _fetch_campaign_opex_items catches it) and leaves    *)
(* the store as the answered requests made it.                             *)
(***************************************************************************)
EXTENDS Integers, Sequences, FiniteSets, TLC

VARIABLES
    pc,                         \* the calls still to be made, in order
    returned,                   \* the calls that have returned
    start_date, end_date,       \* datetime.date arguments
    months,                     \* list of month labels
    mode,                       \* distribution_mode
    custom_weights,             \* Optional[Dict[label, number]]
    weights,                    \* Dict[label, fraction]
    total_qty,                  \* argument of distribute_quantity
    month_qtys,                 \* Dict[label, quantity]
    products,                   \* List[Product], the catalogue
    quantities,                 \* Dict[product id, total_qty], as its items
    per_product_month_weights,  \* Optional[Dict[product id, Dict[label, number]]]
    size_breakdown,             \* Optional[Dict[product id, Dict[size, qty]]]
    pid_weights,                \* weights_for_pid of each product processed
    monthly_df,                 \* rows of the monthly table
    product_summary_df,         \* rows of the product summary
    size_df,                    \* rows of the size table
    totals,                     \* Optional[result of campaign_totals]
    opex_items,                 \* List[OpexItem]
    opex_df,                    \* rows of the expanded OPEX table
    db,                         \* the tables of the store
    campaign,                   \* the campaign row given to the scenario engine
    scenario_product_overrides, \* rows of scenario_products
    scenario_opex_overrides,    \* rows of scenario_opex
    distribution_mode_override, \* Optional[str]
    custom_weights_override,    \* Optional[Dict[label, number]]
    sp_map,                     \* product id -> ScenarioProduct
    size_rows,                  \* the size rows the scenario engine builds
    lib_items,                  \* the OPEX library rows the engine read
    responses,                  \* resp.data of the requests of the engine's call
    opex_ids,                   \* argument of save_campaign_opex_links
    saved_campaign_id,          \* campaign_id of the last save of campaign_db
    saved,                      \* <<the save called last, its second argument>>
    scenario_id, new_name,      \* arguments of the last store call
    new_s,                      \* Optional[row returned by the last store call]
    error,                      \* Optional[message of the exception raised]
    id_seq,                     \* the number of scenario ids the store has generated
    running,                    \* the store function in progress and its next request
    product_dict,               \* argument d of validate_product_dict
    errors                      \* the list validate_product_dict returns

calendar_vars == <<start_date, end_date, months>>
weight_vars == <<mode, custom_weights, weights>>
quantity_vars == <<total_qty, month_qtys>>
forecast_in == <<products, quantities, per_product_month_weights,
                 size_breakdown>>
forecast_out == <<pid_weights, monthly_df, product_summary_df, size_df>>

opex_vars == <<opex_items, opex_df>>

scenario_in == <<campaign, scenario_product_overrides,
                 scenario_opex_overrides, distribution_mode_override,
                 custom_weights_override>>
scenario_out == <<sp_map, size_rows, lib_items, responses>>
scenario_vars == <<scenario_in, scenario_out>>
store_vars == <<db, opex_ids, saved_campaign_id, saved, scenario_id, new_name,
                new_s, error, id_seq, running>>

validation_vars == <<product_dict, errors>>

vars == <<pc, returned, calendar_vars, weight_vars, quantity_vars,
          forecast_in, forecast_out, totals, opex_vars, scenario_vars,
          store_vars, validation_vars>>

-----------------------------------------------------------------------------
(* Bounds of the model *)

\* months in the window from which campaign month lists and weight keys are drawn
MaxMonths == 3
\* number of calendar years the dates of the calendar check range over
MaxYears == 2
\* number of scenarios the store creates
MaxScenarios == 2

-----------------------------------------------------------------------------
(* Exact rational arithmetic *)

Abs(x) == IF x < 0 THEN -x ELSE x

RECURSIVE Gcd(_, _)
Gcd(a, b) == IF b = 0 THEN a ELSE Gcd(b, a % b)

\* n/d in lowest terms, d # 0
Rat(n, d) ==
    LET g == Gcd(Abs(n), Abs(d))
        s == IF d < 0 THEN -1 ELSE 1
    IN  <<(s * n) \div g, (s * d) \div g>>

RInt(n) == <<n, 1>>
RZero == <<0, 1>>
ROne == <<1, 1>>
RAdd(a, b) == Rat(a[1] * b[2] + b[1] * a[2], a[2] * b[2])
RSub(a, b) == Rat(a[1] * b[2] - b[1] * a[2], a[2] * b[2])
RMul(a, b) == Rat(a[1] * b[1], a[2] * b[2])
RDiv(a, b) == Rat(a[1] * b[2], a[2] * b[1])
RLess(a, b) == a[1] * b[2] < b[1] * a[2]
RMax(a, b) == IF RLess(a, b) THEN b ELSE a

RECURSIVE RSum(_)
RSum(s) == IF s = <<>> THEN RZero ELSE RAdd(Head(s), RSum(Tail(s)))

\* the values of a dict over the keys listed in ks, in that order
ValuesOf(f, ks) == [i \in 1..Len(ks) |-> f[ks[i]]]

Range(s) == {s[i] : i \in DOMAIN s}

-----------------------------------------------------------------------------
(* Optional values *)

None == [tag |-> "none"]
Some(v) == [tag |-> "some", val |-> v]
IsNone(o) == o.tag = "none"

-----------------------------------------------------------------------------
(* Strings as character codes *)

Digit(k) == 48 + k
Hyphen == <<45>>

\* f"{y:04d}-{m:02d}"
Label(y, m) ==
    <<Digit((y \div 1000) % 10), Digit((y \div 100) % 10),
      Digit((y \div 10) % 10), Digit(y % 10)>>
    \o Hyphen \o <<Digit(m \div 10), Digit(m % 10)>>

\* str(d) of a datetime.date: "YYYY-MM-DD"
IsoFormat(d) ==
    Label(d.year, d.month) \o Hyphen \o <<Digit(d.day \div 10), Digit(d.day % 10)>>

\* str.__lt__ / str.__le__: lexicographic order of the character codes
RECURSIVE StrLess(_, _)
StrLess(a, b) ==
    IF b = <<>> THEN FALSE
    ELSE IF a = <<>> THEN TRUE
    ELSE IF Head(a) # Head(b) THEN Head(a) < Head(b)
    ELSE StrLess(Tail(a), Tail(b))

StrLeq(a, b) == a = b \/ StrLess(a, b)

\* date.__lt__
DateLess(a, b) ==
    \/ a.year < b.year
    \/ a.year = b.year /\ a.month < b.month
    \/ a.year = b.year /\ a.month = b.month /\ a.day < b.day

-----------------------------------------------------------------------------
(* modules/revenue.py: month helpers *)

\* the while loop of month_range, from (y, m) up to the month of end
RECURSIVE MonthRangeLoop(_, _, _, _)
MonthRangeLoop(y, m, end, acc) ==
    IF (y < end.year) \/ (y = end.year /\ m <= end.month)
    THEN LET m1 == m + 1
         IN  IF m1 > 12
             THEN MonthRangeLoop(y + 1, 1, end, Append(acc, Label(y, m)))
             ELSE MonthRangeLoop(y, m1, end, Append(acc, Label(y, m)))
    ELSE acc

\* fault variant: month_range without the swap of its arguments
month_range_noswap(start, end) ==
    MonthRangeLoop(start.year, start.month, end, <<>>)

month_range(start, end) ==
    LET s == IF DateLess(end, start) THEN end ELSE start
        e == IF DateLess(end, start) THEN start ELSE end
    IN  MonthRangeLoop(s.year, s.month, e, <<>>)

-----------------------------------------------------------------------------
(* modules/revenue.py: distribution *)

Modes == {"Uniform", "Front-loaded", "Back-loaded", "Custom", "Weekly"}

\* fault variant: the list below without the clamp max(0.0, .)
ClampedCustom_noclamp(ms, cw) ==
    [i \in 1..Len(ms) |->
        IF ms[i] \in DOMAIN cw THEN RInt(cw[ms[i]]) ELSE RZero]

\* [max(0.0, float(custom_weights.get(m, 0.0))) for m in months]
ClampedCustom(ms, cw) ==
    [i \in 1..Len(ms) |->
        IF ms[i] \in DOMAIN cw THEN RMax(RZero, RInt(cw[ms[i]])) ELSE RZero]

\* fault variant: Front-loaded built ascending, as Back-loaded is
FrontLoadedRaw_ascending(n) == [i \in 1..n |-> RInt(i)]

\* list(range(n, 0, -1))
FrontLoadedRaw(n) == [i \in 1..n |-> RInt(n - i + 1)]

\* list(range(1, n + 1))
BackLoadedRaw(n) == [i \in 1..n |-> RInt(i)]

UniformRaw(n) == [i \in 1..n |-> ROne]

\* the list w of raw weights that build_distribution_weights normalises
RawWeights(ms, md, cw) ==
    LET n == Len(ms)
    IN  IF md = "Uniform" THEN UniformRaw(n)
        ELSE IF md = "Front-loaded" THEN FrontLoadedRaw(n)
        ELSE IF md = "Back-loaded" THEN BackLoadedRaw(n)
        ELSE IF md = "Custom"
        THEN IF IsNone(cw) \/ (~IsNone(cw) /\ DOMAIN cw.val = {})
             THEN UniformRaw(n)
             ELSE LET w == ClampedCustom(ms, cw.val)
                  IN  IF RSum(w) = RZero THEN UniformRaw(n) ELSE w
        ELSE UniformRaw(n)

build_distribution_weights(ms, md, cw) ==
    IF Len(ms) = 0 THEN <<>>
    ELSE LET w == RawWeights(ms, md, cw)
             total == RSum(w)
         IN  [m \in Range(ms) |->
                LET i == CHOOSE j \in 1..Len(ms) :
                            ms[j] = m /\ \A k \in (j + 1)..Len(ms) : ms[k] # m
                IN  RDiv(w[i], total)]

\* fault variant: each month rounded down to whole units
distribute_quantity_floor(q, ws) ==
    [m \in DOMAIN ws |-> RInt((q[1] * ws[m][1]) \div (q[2] * ws[m][2]))]

distribute_quantity(q, ws) == [m \in DOMAIN ws |-> RMul(q, ws[m])]


-----------------------------------------------------------------------------
(* modules/products.py: unit economics *)

\* fault variant: the price after discount, returns not deducted
effective_price_noreturn(p) == RMul(p.price_bdt, RSub(ROne, p.discount_rate))

effective_price(p) ==
    LET after_discount == RMul(p.price_bdt, RSub(ROne, p.discount_rate))
    IN  RMul(after_discount, RSub(ROne, p.return_rate))

total_unit_cost(p) ==
    RAdd(RAdd(RAdd(p.manufacturing_cost_bdt, p.packaging_cost_bdt),
              p.shipping_cost_bdt),
         p.marketing_cost_bdt)

unit_net_profit(p) == RSub(effective_price(p), total_unit_cost(p))

-----------------------------------------------------------------------------
(* modules/products.py: validation *)

\* The values of a product dict: None, a string, a number.  A dict is a
\* function from the keys it has to their values; a string is the
\* sequence of its character codes, so that float() can read it.
Str(s) == [tag |-> "str", val |-> s]
Num(q) == [tag |-> "num", val |-> q]

required == <<"name", "category", "price_bdt", "manufacturing_cost_bdt">>
numeric_fields ==
    <<"price_bdt", "manufacturing_cost_bdt", "packaging_cost_bdt",
      "shipping_cost_bdt", "marketing_cost_bdt", "return_rate",
      "discount_rate">>
rate_fields == <<"return_rate", "discount_rate">>

\* r not in d or d[r] in ("", None): the number 0 is neither
MissingField(dct, r) ==
    \/ r \notin DOMAIN dct
    \/ dct[r].tag = "none"
    \/ dct[r].tag = "str" /\ dct[r].val = <<>>

\* The outcomes of float(): a finite number, an infinity, nan, or the
\* ValueError raised for a text that is no number.
Finite(q) == [kind |-> "finite", val |-> q]
Infinity(negative) == [kind |-> "inf", negative |-> negative]
NaN == [kind |-> "nan"]
ValueError(text) == [kind |-> "ValueError", text |-> text]

\* Py_UNICODE_ISSPACE on the characters outside ASCII
UnicodeSpaces ==
    {133, 160, 5760, 8232, 8233, 8239, 8287, 12288} \cup (8192..8202)

\* the digit zero of every script outside ASCII; the nine characters after
\* it are its digits one to nine
UnicodeZeros ==
    {1632, 1776, 1984, 2406, 2534, 2662, 2790, 2918, 3046, 3174, 3302,
     3430, 3558, 3664, 3792, 3872, 4160, 4240, 6112, 6160, 6470, 6608,
     6784, 6800, 6992, 7088, 7232, 7248, 42528, 43216, 43264, 43472, 43504,
     43600, 44016, 65296, 66720, 68912, 69734, 69872, 69942, 70096, 70384,
     70736, 70864, 71248, 71360, 71472, 71904, 72016, 72784, 73040, 73120,
     92768, 92864, 93008, 120782, 120792, 120802, 120812, 120822, 123200,
     123632, 125264, 130032}

\* Py_UNICODE_TODECIMAL: the value of a decimal digit, -1 for any other
\* character
UnicodeDecimal(c) ==
    LET zs == {z \in UnicodeZeros : z <= c /\ c <= z + 9}
    IN  IF zs = {} THEN -1 ELSE c - (CHOOSE z \in zs : TRUE)

\* the first position of s that holds a character of cs, 0 when none does
FirstOf(s, cs) ==
    IF \E i \in DOMAIN s : s[i] \in cs
    THEN CHOOSE i \in DOMAIN s :
            s[i] \in cs /\ \A j \in 1..(i - 1) : s[j] \notin cs
    ELSE 0

\* float() of a text that is not ASCII first replaces every white space
\* outside ASCII by a space and every decimal digit by its ASCII digit; the
\* first character it cannot replace becomes "?" and ends the text.  A
\* text of ASCII characters is left as it is.
ToAscii(c) ==
    IF c < 127 THEN c
    ELSE IF c \in UnicodeSpaces THEN 32
    ELSE IF UnicodeDecimal(c) >= 0 THEN 48 + UnicodeDecimal(c)
    ELSE 63

TransformDecimalAndSpaceToASCII(s) ==
    IF \A i \in DOMAIN s : s[i] < 128 THEN s
    ELSE LET bad == {i \in DOMAIN s :
                        s[i] >= 127 /\ s[i] \notin UnicodeSpaces
                        /\ UnicodeDecimal(s[i]) < 0}
             last == IF bad = {} THEN Len(s)
                     ELSE CHOOSE i \in bad : \A j \in bad : i <= j
         IN  [i \in 1..last |-> ToAscii(s[i])]

\* Py_ISSPACE: the white space of ASCII
IsSpace(c) == c \in {9, 10, 11, 12, 13, 32}
IsDigit(c) == 48 <= c /\ c <= 57
IsSign(c) == c \in {43, 45}
LowerCase(c) == IF 65 <= c /\ c <= 90 THEN c + 32 ELSE c

\* an ASCII text without the white space at both ends
StripAscii(s) ==
    LET kept == {i \in DOMAIN s : ~IsSpace(s[i])}
    IN  IF kept = {} THEN <<>>
        ELSE SubSeq(s, CHOOSE i \in kept : \A j \in kept : i <= j,
                       CHOOSE i \in kept : \A j \in kept : j <= i)

\* digit (["_"] digit)* in an ASCII text
IsDigitPart(s) ==
    /\ s # <<>>
    /\ \A i \in DOMAIN s : IsDigit(s[i]) \/ s[i] = 95
    /\ IsDigit(s[1]) /\ IsDigit(s[Len(s)])
    /\ \A i \in 1..(Len(s) - 1) : ~(s[i] = 95 /\ s[i + 1] = 95)

DigitsOf(s) == SelectSeq(s, IsDigit)

WithoutLeadingZeros(ds) ==
    LET nonzero == {i \in DOMAIN ds : ds[i] # 48}
    IN  IF nonzero = {} THEN <<>>
        ELSE SubSeq(ds, CHOOSE i \in nonzero : \A j \in nonzero : i <= j,
                    Len(ds))

WithoutTrailingZeros(ds) ==
    LET nonzero == {i \in DOMAIN ds : ds[i] # 48}
    IN  IF nonzero = {} THEN <<>>
        ELSE SubSeq(ds, 1, CHOOSE i \in nonzero : \A j \in nonzero : j <= i)

RECURSIVE DigitsValue(_)
DigitsValue(ds) ==
    IF ds = <<>> THEN 0
    ELSE 10 * DigitsValue(SubSeq(ds, 1, Len(ds) - 1)) + (ds[Len(ds)] - 48)

RECURSIVE TenTo(_)
TenTo(k) == IF k = 0 THEN 1 ELSE 10 * TenTo(k - 1)

\* the parts of an unsigned float literal: digits, an optional point with
\* digits on at least one side, an optional exponent
LiteralParts(s) ==
    LET e == FirstOf(s, {69, 101})
        mantissa == IF e = 0 THEN s ELSE SubSeq(s, 1, e - 1)
        exponent == IF e = 0 THEN <<>> ELSE SubSeq(s, e + 1, Len(s))
        point == FirstOf(mantissa, {46})
    IN  [int |-> IF point = 0 THEN mantissa
                 ELSE SubSeq(mantissa, 1, point - 1),
         frac |-> IF point = 0 THEN <<>>
                  ELSE SubSeq(mantissa, point + 1, Len(mantissa)),
         has_point |-> point # 0,
         has_exp |-> e # 0,
         exp_negative |-> exponent # <<>> /\ Head(exponent) = 45,
         exp |-> IF exponent # <<>> /\ IsSign(Head(exponent))
                 THEN Tail(exponent) ELSE exponent]

IsLiteral(parts) ==
    /\ \/ IsDigitPart(parts.int)
             /\ (parts.frac = <<>> \/ IsDigitPart(parts.frac))
       \/ parts.int = <<>> /\ parts.has_point /\ IsDigitPart(parts.frac)
    /\ parts.has_exp => IsDigitPart(parts.exp)

\* A positive decimal is given by its digits d1 d2 ... (d1 not 0, no zero
\* at the end) and its magnitude m: it is 0.d1d2... x 10^m.
Decimal(ds, m) == [digits |-> ds, magnitude |-> m]

\* 0.a < 0.b for two digit sequences: the first digit in which they differ
\* is smaller in a, a missing digit being 0
FractionLess(a, b) ==
    LET DigitAt(ds, i) == IF i <= Len(ds) THEN ds[i] ELSE 0
        differ == {i \in DOMAIN a \cup DOMAIN b :
                      DigitAt(a, i) # DigitAt(b, i)}
    IN  /\ differ # {}
        /\ LET i == CHOOSE k \in differ : \A j \in differ : k <= j
           IN  DigitAt(a, i) < DigitAt(b, i)

DecimalLess(x, y) ==
    \/ x.magnitude < y.magnitude
    \/ x.magnitude = y.magnitude /\ FractionLess(x.digits, y.digits)

\* A float is a binary number of 53 bits, and float() gives the float
\* nearest to the literal, the one with an even last bit when two are
\* equally near.  Four decimals mark where that matters to a comparison
\* with 0 and 1.
\* 2^-1075, half the smallest float above 0: up to it a literal reads as 0
HalfSmallestFloat ==
    Decimal(
        <<2, 4, 7, 0, 3, 2, 8, 2, 2, 9, 2, 0, 6, 2, 3, 2, 7, 2, 0, 8, 8, 2,
          8, 4, 3, 9, 6, 4, 3, 4, 1, 1, 0, 6, 8, 6, 1, 8, 2, 5, 2, 9, 9, 0,
          1, 3, 0, 7, 1, 6, 2, 3, 8, 2, 2, 1, 2, 7, 9, 2, 8, 4, 1, 2, 5, 0,
          3, 3, 7, 7, 5, 3, 6, 3, 5, 1, 0, 4, 3, 7, 5, 9, 3, 2, 6, 4, 9, 9,
          1, 8, 1, 8, 0, 8, 1, 7, 9, 9, 6, 1, 8, 9, 8, 9, 8, 2, 8, 2, 3, 4,
          7, 7, 2, 2, 8, 5, 8, 8, 6, 5, 4, 6, 3, 3, 2, 8, 3, 5, 5, 1, 7, 7,
          9, 6, 9, 8, 9, 8, 1, 9, 9, 3, 8, 7, 3, 9, 8, 0, 0, 5, 3, 9, 0, 9,
          3, 9, 0, 6, 3, 1, 5, 0, 3, 5, 6, 5, 9, 5, 1, 5, 5, 7, 0, 2, 2, 6,
          3, 9, 2, 2, 9, 0, 8, 5, 8, 3, 9, 2, 4, 4, 9, 1, 0, 5, 1, 8, 4, 4,
          3, 5, 9, 3, 1, 8, 0, 2, 8, 4, 9, 9, 3, 6, 5, 3, 6, 1, 5, 2, 5, 0,
          0, 3, 1, 9, 3, 7, 0, 4, 5, 7, 6, 7, 8, 2, 4, 9, 2, 1, 9, 3, 6, 5,
          6, 2, 3, 6, 6, 9, 8, 6, 3, 6, 5, 8, 4, 8, 0, 7, 5, 7, 0, 0, 1, 5,
          8, 5, 7, 6, 9, 2, 6, 9, 9, 0, 3, 7, 0, 6, 3, 1, 1, 9, 2, 8, 2, 7,
          9, 5, 5, 8, 5, 5, 1, 3, 3, 2, 9, 2, 7, 8, 3, 4, 3, 3, 8, 4, 0, 9,
          3, 5, 1, 9, 7, 8, 0, 1, 5, 5, 3, 1, 2, 4, 6, 5, 9, 7, 2, 6, 3, 5,
          7, 9, 5, 7, 4, 6, 2, 2, 7, 6, 6, 4, 6, 5, 2, 7, 2, 8, 2, 7, 2, 2,
          0, 0, 5, 6, 3, 7, 4, 0, 0, 6, 4, 8, 5, 4, 9, 9, 9, 7, 7, 0, 9, 6,
          5, 9, 9, 4, 7, 0, 4, 5, 4, 0, 2, 0, 8, 2, 8, 1, 6, 6, 2, 2, 6, 2,
          3, 7, 8, 5, 7, 3, 9, 3, 4, 5, 0, 7, 3, 6, 3, 3, 9, 0, 0, 7, 9, 6,
          7, 7, 6, 1, 9, 3, 0, 5, 7, 7, 5, 0, 6, 7, 4, 0, 1, 7, 6, 3, 2, 4,
          6, 7, 3, 6, 0, 0, 9, 6, 8, 9, 5, 1, 3, 4, 0, 5, 3, 5, 5, 3, 7, 4,
          5, 8, 5, 1, 6, 6, 6, 1, 1, 3, 4, 2, 2, 3, 7, 6, 6, 6, 7, 8, 6, 0,
          4, 1, 6, 2, 1, 5, 9, 6, 8, 0, 4, 6, 1, 9, 1, 4, 4, 6, 7, 2, 9, 1,
          8, 4, 0, 3, 0, 0, 5, 3, 0, 0, 5, 7, 5, 3, 0, 8, 4, 9, 0, 4, 8, 7,
          6, 5, 3, 9, 1, 7, 1, 1, 3, 8, 6, 5, 9, 1, 6, 4, 6, 2, 3, 9, 5, 2,
          4, 9, 1, 2, 6, 2, 3, 6, 5, 3, 8, 8, 1, 8, 7, 9, 6, 3, 6, 2, 3, 9,
          3, 7, 3, 2, 8, 0, 4, 2, 3, 8, 9, 1, 0, 1, 8, 6, 7, 2, 3, 4, 8, 4,
          9, 7, 6, 6, 8, 2, 3, 5, 0, 8, 9, 8, 6, 3, 3, 8, 8, 5, 8, 7, 9, 2,
          5, 6, 2, 8, 3, 0, 2, 7, 5, 5, 9, 9, 5, 6, 5, 7, 5, 2, 4, 4, 5, 5,
          5, 0, 7, 2, 5, 5, 1, 8, 9, 3, 1, 3, 6, 9, 0, 8, 3, 6, 2, 5, 4, 7,
          7, 9, 1, 8, 6, 9, 4, 8, 6, 6, 7, 9, 9, 4, 9, 6, 8, 3, 2, 4, 0, 4,
          9, 7, 0, 5, 8, 2, 1, 0, 2, 8, 5, 1, 3, 1, 8, 5, 4, 5, 1, 3, 9, 6,
          2, 1, 3, 8, 3, 7, 7, 2, 2, 8, 2, 6, 1, 4, 5, 4, 3, 7, 6, 9, 3, 4,
          1, 2, 5, 3, 2, 0, 9, 8, 5, 9, 1, 3, 2, 7, 6, 6, 7, 2, 3, 6, 3, 2,
          8, 1, 2, 5>>,
        -323)

\* 2^1024 - 2^970, half a step above the largest float: from it on a
\* literal reads as infinity
OverflowingFloat ==
    Decimal(
        <<1, 7, 9, 7, 6, 9, 3, 1, 3, 4, 8, 6, 2, 3, 1, 5, 8, 0, 7, 9, 3, 7,
          2, 8, 9, 7, 1, 4, 0, 5, 3, 0, 3, 4, 1, 5, 0, 7, 9, 9, 3, 4, 1, 3,
          2, 7, 1, 0, 0, 3, 7, 8, 2, 6, 9, 3, 6, 1, 7, 3, 7, 7, 8, 9, 8, 0,
          4, 4, 4, 9, 6, 8, 2, 9, 2, 7, 6, 4, 7, 5, 0, 9, 4, 6, 6, 4, 9, 0,
          1, 7, 9, 7, 7, 5, 8, 7, 2, 0, 7, 0, 9, 6, 3, 3, 0, 2, 8, 6, 4, 1,
          6, 6, 9, 2, 8, 8, 7, 9, 1, 0, 9, 4, 6, 5, 5, 5, 5, 4, 7, 8, 5, 1,
          9, 4, 0, 4, 0, 2, 6, 3, 0, 6, 5, 7, 4, 8, 8, 6, 7, 1, 5, 0, 5, 8,
          2, 0, 6, 8, 1, 9, 0, 8, 9, 0, 2, 0, 0, 0, 7, 0, 8, 3, 8, 3, 6, 7,
          6, 2, 7, 3, 8, 5, 4, 8, 4, 5, 8, 1, 7, 7, 1, 1, 5, 3, 1, 7, 6, 4,
          4, 7, 5, 7, 3, 0, 2, 7, 0, 0, 6, 9, 8, 5, 5, 5, 7, 1, 3, 6, 6, 9,
          5, 9, 6, 2, 2, 8, 4, 2, 9, 1, 4, 8, 1, 9, 8, 6, 0, 8, 3, 4, 9, 3,
          6, 4, 7, 5, 2, 9, 2, 7, 1, 9, 0, 7, 4, 1, 6, 8, 4, 4, 4, 3, 6, 5,
          5, 1, 0, 7, 0, 4, 3, 4, 2, 7, 1, 1, 5, 5, 9, 6, 9, 9, 5, 0, 8, 0,
          9, 3, 0, 4, 2, 8, 8, 0, 1, 7, 7, 9, 0, 4, 1, 7, 4, 4, 9, 7, 7, 9,
          2>>,
        309)

\* 1 - 2^-54 and 1 + 2^-53, half a step below and above 1: between them,
\* both included, a literal reads as 1
HalfBelowOne ==
    Decimal(
        <<9, 9, 9, 9, 9, 9, 9, 9, 9, 9, 9, 9, 9, 9, 9, 9, 4, 4, 4, 8, 8, 8,
          4, 8, 7, 6, 8, 7, 4, 2, 1, 7, 2, 9, 7, 8, 8, 1, 8, 4, 1, 6, 5, 9,
          5, 4, 5, 8, 9, 8, 4, 3, 7, 5>>,
        0)

HalfAboveOne ==
    Decimal(
        <<1, 0, 0, 0, 0, 0, 0, 0, 0, 0, 0, 0, 0, 0, 0, 0, 1, 1, 1, 0, 2, 2,
          3, 0, 2, 4, 6, 2, 5, 1, 5, 6, 5, 4, 0, 4, 2, 3, 6, 3, 1, 6, 6, 8,
          0, 9, 0, 8, 2, 0, 3, 1, 2, 5>>,
        1)

\* the number a literal stands for: digits x 10^scale, read as the nearest
\* float.  The numbers of the model are exact; a number that is no float
\* stands for the float nearest to it.
LiteralValue(parts, negative) ==
    LET frac == DigitsOf(parts.frac)
        all == WithoutLeadingZeros(DigitsOf(parts.int) \o frac)
        digits == WithoutTrailingZeros(all)
        exp_size == DigitsValue(WithoutLeadingZeros(DigitsOf(parts.exp)))
        exp == IF parts.exp_negative THEN -exp_size ELSE exp_size
        scale == exp - Len(frac) + (Len(all) - Len(digits))
        size == Decimal([i \in DOMAIN digits |-> digits[i] - 48],
                        Len(digits) + scale)
        sign == IF negative THEN -1 ELSE 1
    IN  IF digits = <<>> THEN Finite(RZero)
        ELSE IF ~DecimalLess(HalfSmallestFloat, size) THEN Finite(RZero)
        ELSE IF ~DecimalLess(size, OverflowingFloat) THEN Infinity(negative)
        ELSE IF ~DecimalLess(size, HalfBelowOne)
                /\ ~DecimalLess(HalfAboveOne, size)
        THEN Finite(RInt(sign))
        ELSE IF scale >= 0
        THEN Finite(RInt(sign * DigitsValue(digits) * TenTo(scale)))
        ELSE Finite(Rat(sign * DigitsValue(digits), TenTo(-scale)))

\* float(text): the text brought to ASCII, white space around, a sign,
\* then inf, infinity or nan in any case, or a literal
ParseFloat(text) ==
    LET s == StripAscii(TransformDecimalAndSpaceToASCII(text))
        signed == s # <<>> /\ IsSign(Head(s))
        negative == signed /\ Head(s) = 45
        body == IF signed THEN Tail(s) ELSE s
        word == [i \in DOMAIN body |-> LowerCase(body[i])]
        parts == LiteralParts(body)
    IN  IF word \in {<<105, 110, 102>>,
                     <<105, 110, 102, 105, 110, 105, 116, 121>>}
        THEN Infinity(negative)
        ELSE IF word = <<110, 97, 110>> THEN NaN
        ELSE IF IsLiteral(parts) THEN LiteralValue(parts, negative)
        ELSE ValueError(text)

\* float(d.get(nf, 0) or 0): an absent key, None, "" and 0 read as 0, a
\* number as itself, any other text as float() reads it
FloatOrZero(dct, nf) ==
    IF nf \notin DOMAIN dct \/ dct[nf].tag = "none" THEN Finite(RZero)
    ELSE IF dct[nf].tag = "num" THEN Finite(dct[nf].val)
    ELSE IF dct[nf].val = <<>> THEN Finite(RZero)
    ELSE ParseFloat(dct[nf].val)

\* v < 0
IsNegative(v) ==
    \/ v.kind = "finite" /\ RLess(v.val, RZero)
    \/ v.kind = "inf" /\ v.negative

\* not (0 <= v <= 1)
OutsideUnit(v) ==
    \/ v.kind \in {"inf", "nan"}
    \/ v.kind = "finite" /\ (RLess(v.val, RZero) \/ RLess(ROne, v.val))

\* the f-strings of the three messages
MissingMessage(r) == <<"Missing required field: ", r>>
NegativeMessage(nf) == <<nf, " cannot be negative">>
RangeMessage(rf) == <<rf, " must be between 0 and 1">>

\* str(e) of the ValueError of float(): the text is shown as repr(text)
ValueErrorMessage(text) == <<"could not convert string to float: ", text>>

MessagesOf(fields, Bad(_), Message(_)) ==
    LET bad == SelectSeq(fields, Bad)
    IN  [i \in DOMAIN bad |-> Message(bad[i])]

\* the numeric fields whose value float() cannot read, in the order of
\* the loop
Unreadable(dct) ==
    SelectSeq(numeric_fields,
              LAMBDA nf : FloatOrZero(dct, nf).kind = "ValueError")

\* errors: the missing required fields, then the negative numbers, then
\* the rates outside [0, 1]; the first numeric field that float() cannot
\* read ends the call with its ValueError and nothing is returned
validate_product_dict(dct) ==
    IF Unreadable(dct) # <<>>
    THEN [returns |-> None,
          raises |-> Some(ValueErrorMessage(
                             FloatOrZero(dct, Unreadable(dct)[1]).text))]
    ELSE [returns |->
            Some(MessagesOf(required, LAMBDA r : MissingField(dct, r),
                            MissingMessage)
                 \o MessagesOf(numeric_fields,
                               LAMBDA nf : IsNegative(FloatOrZero(dct, nf)),
                               NegativeMessage)
                 \o MessagesOf(rate_fields,
                               LAMBDA rf : OutsideUnit(FloatOrZero(dct, rf)),
                               RangeMessage)),
          raises |-> None]

-----------------------------------------------------------------------------
(* modules/revenue.py: forecast builder *)

\* calendar.month_abbr[1..12], as character codes
MonthAbbr ==
    << <<74, 97, 110>>, <<70, 101, 98>>, <<77, 97, 114>>, <<65, 112, 114>>,
       <<77, 97, 121>>, <<74, 117, 110>>, <<74, 117, 108>>, <<65, 117, 103>>,
       <<83, 101, 112>>, <<79, 99, 116>>, <<78, 111, 118>>, <<68, 101, 99>> >>

\* int(s) of a string of decimal digits
RECURSIVE ParseInt(_)
ParseInt(s) ==
    IF s = <<>> THEN 0
    ELSE 10 * ParseInt(SubSeq(s, 1, Len(s) - 1)) + (s[Len(s)] - 48)

\* date.fromisoformat(s) of "YYYY-MM-DD"
FromIsoFormat(s) ==
    [year |-> ParseInt(SubSeq(s, 1, 4)), month |-> ParseInt(SubSeq(s, 6, 7)),
     day |-> ParseInt(SubSeq(s, 9, 10))]

\* y, m = label.split("-"); f"{calendar.month_abbr[int(m)]} {y}"
month_label_to_nice(label) ==
    LET h == CHOOSE i \in 1..Len(label) :
                label[i] = 45 /\ \A j \in 1..(i - 1) : label[j] # 45
        y == SubSeq(label, 1, h - 1)
        m == SubSeq(label, h + 1, Len(label))
    IN  MonthAbbr[ParseInt(m)] \o <<32>> \o y

revenue_for_product_month(p, qty) ==
    [gross_revenue     |-> RMul(p.price_bdt, qty),
     effective_revenue |-> RMul(effective_price(p), qty),
     total_unit_cost   |-> RMul(total_unit_cost(p), qty),
     net_profit        |-> RMul(unit_net_profit(p), qty)]

\* a dict given by its items <<key, value>> in insertion order
Keys(items) == {items[i][1] : i \in DOMAIN items}
Get(items, k) == items[CHOOSE i \in DOMAIN items : items[i][1] = k][2]

\* prod_map = {p.id: p for p in products}: the last product of an id wins
ProdMap(ps) ==
    [id \in {ps[i].id : i \in DOMAIN ps} |->
        ps[CHOOSE i \in DOMAIN ps :
              ps[i].id = id /\ \A j \in DOMAIN ps : ps[j].id = id => j <= i]]

\* fault variant: a per-product map is used in every mode
WeightsForPid_anymode(pid, md, ppw, ms, base) ==
    IF ~IsNone(ppw) /\ DOMAIN ppw.val # {} /\ pid \in DOMAIN ppw.val
    THEN build_distribution_weights(ms, "Custom", Some(ppw.val[pid]))
    ELSE base

\* the weights of one product (lines 148-161): its own map in Custom mode,
\* the shared base_weights otherwise
WeightsForPid(pid, md, ppw, ms, base) ==
    IF md = "Custom" /\ ~IsNone(ppw) /\ DOMAIN ppw.val # {}
       /\ pid \in DOMAIN ppw.val
    THEN build_distribution_weights(ms, "Custom", Some(ppw.val[pid]))
    ELSE base

\* the monthly rows of one product, in the order of the months
ProductMonthlyRows(p, pid, month_q, ms) ==
    [i \in 1..Len(ms) |->
        LET m == ms[i]
            q == month_q[m]
            econ == revenue_for_product_month(p, q)
        IN  [month             |-> m,
             month_nice        |-> month_label_to_nice(m),
             product_id        |-> pid,
             product_name      |-> p.name,
             category          |-> p.category,
             qty               |-> q,
             price_bdt         |-> p.price_bdt,
             price             |-> p.price_bdt,
             effective_price   |-> effective_price(p),
             gross_revenue     |-> econ.gross_revenue,
             effective_revenue |-> econ.effective_revenue,
             total_cost        |-> econ.total_unit_cost,
             net_profit        |-> econ.net_profit]]

SizeRow(p, pid, size, sqty) ==
    LET econ == revenue_for_product_month(p, sqty)
    IN  [product_id        |-> pid,
         product_name      |-> p.name,
         size              |-> size,
         qty               |-> sqty,
         gross_revenue     |-> econ.gross_revenue,
         effective_revenue |-> econ.effective_revenue,
         total_cost        |-> econ.total_unit_cost,
         net_profit        |-> econ.net_profit]

\* fault variant: the size rows of every product id of the size breakdown
\* are emitted while one product is processed
RECURSIVE AllSizeRows(_, _)
AllSizeRows(p, sbitems) ==
    IF sbitems = <<>> THEN <<>>
    ELSE [i \in 1..Len(Head(sbitems)[2]) |->
            SizeRow(p, Head(sbitems)[1], Head(sbitems)[2][i][1],
                    Head(sbitems)[2][i][2])]
         \o AllSizeRows(p, Tail(sbitems))

ProductSizeRows_anypid(p, pid, sb) ==
    IF ~IsNone(sb) THEN AllSizeRows(p, sb.val) ELSE <<>>

\* the size rows of one product, in the order of its size dict
ProductSizeRows(p, pid, sb) ==
    IF ~IsNone(sb) /\ sb.val # <<>> /\ pid \in Keys(sb.val)
    THEN LET sdict == Get(sb.val, pid)
         IN  [i \in 1..Len(sdict) |->
                SizeRow(p, pid, sdict[i][1], sdict[i][2])]
    ELSE <<>>

\* the loop over quantities.items() (lines 141-200): the items whose
\* product id is in the catalogue
ForecastItems(ps, qs) ==
    SelectSeq(qs, LAMBDA it : it[1] \in DOMAIN ProdMap(ps))

RECURSIVE MonthlyRows(_, _, _, _)
MonthlyRows(ps, items, pw, ms) ==
    IF items = <<>> THEN <<>>
    ELSE LET pid == Head(items)[1]
             p == ProdMap(ps)[pid]
             month_q == distribute_quantity(Head(items)[2], pw[pid])
         IN  ProductMonthlyRows(p, pid, month_q, ms)
             \o MonthlyRows(ps, Tail(items), pw, ms)

RECURSIVE SizeRows(_, _, _)
SizeRows(ps, items, sb) ==
    IF items = <<>> THEN <<>>
    ELSE LET pid == Head(items)[1]
         IN  ProductSizeRows(ProdMap(ps)[pid], pid, sb)
             \o SizeRows(ps, Tail(items), sb)

\* pandas Series.sum() of a column
ColumnSum(rows, col) == RSum([i \in DOMAIN rows |-> rows[i][col]])

\* pandas Series.replace(0, 1) on one value
Replace0By1(x) == IF x = RZero THEN ROne ELSE x

\* the values of a list of strings, sorted ascending, without repetition
RECURSIVE SortStrings(_)
SortStrings(S) ==
    IF S = {} THEN <<>>
    ELSE LET lo == CHOOSE x \in S : \A y \in S : StrLeq(x, y)
         IN  <<lo>> \o SortStrings(S \ {lo})

\* fault variant: a margin is 0 when its denominator is 0
WithMargins_zero(g) ==
    [product_id        |-> g.product_id,
     product_name      |-> g.product_name,
     category          |-> g.category,
     campaign_qty      |-> g.campaign_qty,
     gross_revenue     |-> g.gross_revenue,
     effective_revenue |-> g.effective_revenue,
     total_cost        |-> g.total_cost,
     net_profit        |-> g.net_profit,
     gross_margin_pct  |->
        IF g.gross_revenue = RZero THEN RZero
        ELSE RMul(RDiv(RSub(g.gross_revenue, g.total_cost), g.gross_revenue),
                  RInt(100)),
     net_margin_pct    |->
        IF g.effective_revenue = RZero THEN RZero
        ELSE RMul(RDiv(g.net_profit, g.effective_revenue), RInt(100))]

\* the two margin columns of a summary row (lines 218-225)
WithMargins(g) ==
    [product_id        |-> g.product_id,
     product_name      |-> g.product_name,
     category          |-> g.category,
     campaign_qty      |-> g.campaign_qty,
     gross_revenue     |-> g.gross_revenue,
     effective_revenue |-> g.effective_revenue,
     total_cost        |-> g.total_cost,
     net_profit        |-> g.net_profit,
     gross_margin_pct  |->
        RMul(RDiv(RSub(g.gross_revenue, g.total_cost),
                  Replace0By1(g.gross_revenue)), RInt(100)),
     net_margin_pct    |->
        RMul(RDiv(g.net_profit, Replace0By1(g.effective_revenue)),
             RInt(100))]

\* fault variant: only the products with a positive quantity get a group
GroupByProduct_positive(rows) ==
    LET sold == SelectSeq(rows, LAMBDA r : RLess(RZero, r.qty))
        ids == SortStrings({sold[i].product_id : i \in DOMAIN sold})
    IN  [k \in 1..Len(ids) |->
            LET grp == SelectSeq(rows, LAMBDA r : r.product_id = ids[k])
            IN  [product_id        |-> ids[k],
                 product_name      |-> grp[1].product_name,
                 category          |-> grp[1].category,
                 campaign_qty      |-> ColumnSum(grp, "qty"),
                 gross_revenue     |-> ColumnSum(grp, "gross_revenue"),
                 effective_revenue |-> ColumnSum(grp, "effective_revenue"),
                 total_cost        |-> ColumnSum(grp, "total_cost"),
                 net_profit        |-> ColumnSum(grp, "net_profit")]]

\* monthly_df.groupby([product_id, product_name, category]).agg(sum ...):
\* one row per product, ordered by the group key
GroupByProduct(rows) ==
    LET ids == SortStrings({rows[i].product_id : i \in DOMAIN rows})
    IN  [k \in 1..Len(ids) |->
            LET grp == SelectSeq(rows, LAMBDA r : r.product_id = ids[k])
            IN  [product_id        |-> ids[k],
                 product_name      |-> grp[1].product_name,
                 category          |-> grp[1].category,
                 campaign_qty      |-> ColumnSum(grp, "qty"),
                 gross_revenue     |-> ColumnSum(grp, "gross_revenue"),
                 effective_revenue |-> ColumnSum(grp, "effective_revenue"),
                 total_cost        |-> ColumnSum(grp, "total_cost"),
                 net_profit        |-> ColumnSum(grp, "net_profit")]]

\* the product summary (lines 204-225)
ProductSummary(rows) ==
    IF rows = <<>> THEN <<>>
    ELSE LET g == GroupByProduct(rows)
         IN  [k \in DOMAIN g |-> WithMargins(g[k])]

ZeroTotals ==
    [campaign_qty |-> RZero, gross_revenue |-> RZero,
     effective_revenue |-> RZero, total_cost |-> RZero, net_profit |-> RZero]

\* fault variant: net_profit summed from the effective_revenue column
campaign_totals_wrongcol(rows) ==
    IF rows = <<>> THEN ZeroTotals
    ELSE [campaign_qty      |-> ColumnSum(rows, "qty"),
          gross_revenue     |-> ColumnSum(rows, "gross_revenue"),
          effective_revenue |-> ColumnSum(rows, "effective_revenue"),
          total_cost        |-> ColumnSum(rows, "total_cost"),
          net_profit        |-> ColumnSum(rows, "effective_revenue")]

campaign_totals(rows) ==
    IF rows = <<>> THEN ZeroTotals
    ELSE [campaign_qty      |-> ColumnSum(rows, "qty"),
          gross_revenue     |-> ColumnSum(rows, "gross_revenue"),
          effective_revenue |-> ColumnSum(rows, "effective_revenue"),
          total_cost        |-> ColumnSum(rows, "total_cost"),
          net_profit        |-> ColumnSum(rows, "net_profit")]

-----------------------------------------------------------------------------
(* modules/opex.py: OPEX expander *)

\* the default "9999-12" of a missing end_month
OpenEnd == <<57, 57, 57, 57, 45, 49, 50>>

\* end_m = item.end_month or "9999-12"
EndOrOpen(item) ==
    IF IsNone(item.end_month) \/ item.end_month.val = <<>>
    THEN OpenEnd
    ELSE item.end_month.val

\* fault variant: the end month itself is excluded
ItemApplies_endexclusive(item, m) ==
    /\ StrLeq(item.start_month, m) /\ StrLess(m, EndOrOpen(item))
    /\ item.is_one_time => m = item.start_month

\* fault variant: a one-time item is not held to its start month
ItemApplies_repeating(item, m) ==
    StrLeq(item.start_month, m) /\ StrLeq(m, EndOrOpen(item))

\* the two tests of the inner loop (lines 71-77) that let month m pass
ItemApplies(item, m) ==
    /\ StrLeq(item.start_month, m) /\ StrLeq(m, EndOrOpen(item))
    /\ item.is_one_time => m = item.start_month

OpexRow(item, m) ==
    [month       |-> m,
     month_nice  |-> month_label_to_nice(m),
     opex_id     |-> item.id,
     name        |-> item.name,
     category    |-> item.category,
     cost_bdt    |-> item.cost_bdt,
     is_one_time |-> item.is_one_time,
     notes       |-> item.notes]

\* the rows of one item, in the order of the campaign months
ItemRows(item, camp_months) ==
    LET ms == SelectSeq(camp_months, LAMBDA m : ItemApplies(item, m))
    IN  [i \in DOMAIN ms |-> OpexRow(item, ms[i])]

RECURSIVE OpexRows(_, _)
OpexRows(items, camp_months) ==
    IF items = <<>> THEN <<>>
    ELSE ItemRows(Head(items), camp_months)
         \o OpexRows(Tail(items), camp_months)

expand_opex_for_campaign(campaign_start, campaign_end, items) ==
    LET camp_months == month_range(campaign_start, campaign_end)
    IN  IF camp_months = <<>> THEN <<>> ELSE OpexRows(items, camp_months)

\* fault variant: is_one_time is not read from the row and keeps its default
rows_to_opex_items_recurring(rows) ==
    [i \in DOMAIN rows |->
        [id |-> rows[i].id, name |-> rows[i].name,
         category |-> rows[i].category, cost_bdt |-> rows[i].cost_bdt,
         start_month |-> rows[i].start_month.val,
         end_month |-> rows[i].end_month,
         is_one_time |-> FALSE, notes |-> rows[i].notes]]

\* the OpexItem of each library row (lines 30-45); the OPEX page stores no
\* item without start_month
rows_to_opex_items(rows) ==
    [i \in DOMAIN rows |->
        [id |-> rows[i].id, name |-> rows[i].name,
         category |-> rows[i].category, cost_bdt |-> rows[i].cost_bdt,
         start_month |-> rows[i].start_month.val,
         end_month |-> rows[i].end_month,
         is_one_time |-> rows[i].is_one_time, notes |-> rows[i].notes]]

-----------------------------------------------------------------------------
(* The store: the tables behind modules/db.py *)

\* A database is a function from the names of its tables to their rows, in
\* the order a select returns them.  A select on a table the database does
\* not have, or of a column the table does not have, raises.
TableColumns ==
    [campaign_quantities |-> {"id", "campaign_id", "product_id", "total_qty"},
     campaign_month_weights |->
        {"id", "campaign_id", "product_id", "month_label", "weight"},
     campaign_size_breakdown |-> {"campaign_id", "product_id", "size", "qty"},
     campaign_opex |-> {"campaign_id", "opex_id"},
     campaign_opex_links |-> {"campaign_id", "opex_item_id"},
     campaign_opex_items |-> {"campaign_id", "opex_item_id"},
     opex_items |->
        {"id", "name", "category", "cost_bdt", "start_month", "end_month",
         "is_one_time", "notes"},
     scenarios |-> {"id", "name", "description", "base_campaign_id"},
     scenario_products |->
        {"id", "scenario_id", "product_id", "price_override",
         "discount_override", "return_rate_override", "cost_override",
         "qty_override"},
     scenario_opex |-> {"id", "scenario_id", "opex_item_id", "cost_override"},
     scenario_fx |-> {"id", "scenario_id", "currency", "rate"},
     scenario_campaign_links |-> {"id", "scenario_id", "campaign_id"}]

\* supabase.table(t).select(col).eq(key, val).execute() raises
SelectRaises(d, t, col) ==
    t \notin DOMAIN d \/ (col # "*" /\ col \notin TableColumns[t])

\* resp.data of supabase.table(t).select(...).eq(key, val).execute()
SelectEq(d, t, key, val) == SelectSeq(d[t], LAMBDA r : r[key] = val)

\* d[k] = v on a dict given by its items: an existing key keeps its place,
\* a new key goes to the end
SetItem(items, k, v) ==
    IF k \in Keys(items)
    THEN [i \in DOMAIN items |->
            IF items[i][1] = k THEN <<k, v>> ELSE items[i]]
    ELSE Append(items, <<k, v>>)

\* x or 0 on a nullable number
OrZero(o) == IF IsNone(o) THEN RZero ELSE o.val

-----------------------------------------------------------------------------
(* modules/campaign_db.py: the reads of a campaign *)

RECURSIVE QuantitiesOfRows(_, _)
QuantitiesOfRows(rows, acc) ==
    IF rows = <<>> THEN acc
    ELSE QuantitiesOfRows(Tail(rows),
            SetItem(acc, Head(rows).product_id, OrZero(Head(rows).total_qty)))

\* the quantities of fetch_campaign_products: product_id -> total_qty
fetch_campaign_products(d, campaign_id) ==
    QuantitiesOfRows(
        SelectEq(d, "campaign_quantities", "campaign_id", campaign_id), <<>>)

\* {r["month_label"]: r["weight"] for r in rows}: the last row of a key wins
WeightsOfRows(rows) ==
    [m \in {rows[i].month_label : i \in DOMAIN rows} |->
        rows[CHOOSE i \in DOMAIN rows :
                /\ rows[i].month_label = m
                /\ \A j \in DOMAIN rows : rows[j].month_label = m => j <= i
            ].weight]

\* what fetch_month_weights makes of the rows of the response: the dict of
\* the legacy rows, those without product_id
LegacyWeightsOfRows(rows) ==
    WeightsOfRows(SelectSeq(rows, LAMBDA r : IsNone(r.product_id)))

fetch_month_weights(d, campaign_id) ==
    LegacyWeightsOfRows(
        SelectEq(d, "campaign_month_weights", "campaign_id", campaign_id))

\* what fetch_product_month_weights makes of the rows of the response: the
\* rows with a product_id, grouped by it
ProductWeightsOfRows(rows) ==
    LET own == SelectSeq(rows, LAMBDA r : ~IsNone(r.product_id))
    IN  [pid \in {own[i].product_id.val : i \in DOMAIN own} |->
            WeightsOfRows(SelectSeq(own, LAMBDA r : r.product_id.val = pid))]

fetch_product_month_weights(d, campaign_id) ==
    ProductWeightsOfRows(
        SelectEq(d, "campaign_month_weights", "campaign_id", campaign_id))

RECURSIVE SizesOfRows(_, _)
SizesOfRows(rows, acc) ==
    IF rows = <<>> THEN acc
    ELSE LET r == Head(rows)
             mine == IF r.product_id \in Keys(acc)
                     THEN Get(acc, r.product_id) ELSE <<>>
         IN  SizesOfRows(Tail(rows),
                SetItem(acc, r.product_id,
                        SetItem(mine, r.size, OrZero(r.qty))))

\* product_id -> size -> qty, both dicts in the order of the rows
fetch_size_breakdown(d, campaign_id) ==
    SizesOfRows(
        SelectEq(d, "campaign_size_breakdown", "campaign_id", campaign_id),
        <<>>)

-----------------------------------------------------------------------------
(* modules/campaign_db.py: the saves of a campaign *)

\* A save sends its requests to the store one after the other, each a
\* blocking .execute(), outside any transaction.  The model runs a save one
\* request at a time: line is the source line of the request that is sent,
\* and the result holds the store after that request (db) and the line of
\* the request that the function sends next (at), 0 when it returns.

\* The store generates the id of an inserted row.  The code holds an id
\* only between a select and the delete that follows it, so the model
\* gives a new row the smallest id its table does not use.
RECURSIVE NextFree(_, _)
NextFree(used, n) == IF n \in used THEN NextFree(used, n + 1) ELSE n

RECURSIVE AppendWithIds(_, _)
AppendWithIds(rows, payload) ==
    IF payload = <<>> THEN rows
    ELSE LET id == NextFree({rows[i].id : i \in DOMAIN rows}, 1)
             row == [k \in DOMAIN Head(payload) \cup {"id"} |->
                        IF k = "id" THEN id ELSE Head(payload)[k]]
         IN  AppendWithIds(Append(rows, row), Tail(payload))

\* supabase.table(t).insert(payload).execute() on a table with generated ids
InsertWithIds(d, t, payload) == [d EXCEPT ![t] = AppendWithIds(@, payload)]

\* supabase.table(t).delete().in_("id", ids).execute()
DeleteIds(d, t, ids) ==
    [d EXCEPT ![t] = SelectSeq(@, LAMBDA r : r.id \notin ids)]

\* supabase.table(t).delete().eq("campaign_id", campaign_id).execute()
DeleteCampaignRows(d, t, campaign_id) ==
    [d EXCEPT ![t] = SelectSeq(@, LAMBDA r : r.campaign_id # campaign_id)]

\* the rows save_campaign_products inserts: the quantities > 0
QuantityPayload(campaign_id, qs) ==
    LET kept == SelectSeq(qs, LAMBDA kv : RLess(RZero, kv[2]))
    IN  [i \in DOMAIN kept |->
            [campaign_id |-> campaign_id, product_id |-> kept[i][1],
             total_qty |-> Some(kept[i][2])]]

\* fault variant: the request of line 96 deletes nothing
save_campaign_products_appended(d, line, campaign_id, qs) ==
    LET payload == QuantityPayload(campaign_id, qs)
    IN  IF line = 96
        THEN [db |-> d, at |-> IF payload # <<>> THEN 109 ELSE 0]
        ELSE [db |-> InsertWithIds(d, "campaign_quantities", payload),
              at |-> 0]

\* line 96: delete the rows of the campaign; line 109, when there is a
\* payload: insert it
save_campaign_products(d, line, campaign_id, qs) ==
    LET payload == QuantityPayload(campaign_id, qs)
    IN  IF line = 96
        THEN [db |-> DeleteCampaignRows(d, "campaign_quantities", campaign_id),
              at |-> IF payload # <<>> THEN 109 ELSE 0]
        ELSE [db |-> InsertWithIds(d, "campaign_quantities", payload),
              at |-> 0]

\* the rows of one weight dict: the weights >= 0
WeightPayload(campaign_id, product_id, month_dict) ==
    LET kept == SelectSeq(month_dict, LAMBDA kv : kv[2] >= 0)
    IN  [i \in DOMAIN kept |->
            [campaign_id |-> campaign_id, product_id |-> product_id,
             month_label |-> kept[i][1], weight |-> kept[i][2]]]

\* fault variant: legacy_ids holds the id of every weight row of the
\* campaign
save_month_weights_allrows(d, line, campaign_id, ws, legacy_ids) ==
    LET payload == WeightPayload(campaign_id, None, ws)
        then_insert == IF payload # <<>> THEN 167 ELSE 0
    IN  CASE line = 148 ->
               LET rows == SelectEq(d, "campaign_month_weights",
                                    "campaign_id", campaign_id)
                   ids == [i \in DOMAIN rows |-> rows[i].id]
               IN  [db |-> d, at |-> IF ids # <<>> THEN 154 ELSE then_insert,
                    legacy_ids |-> ids]
          [] line = 154 ->
               [db |-> DeleteIds(d, "campaign_month_weights",
                                 Range(legacy_ids)),
                at |-> then_insert, legacy_ids |-> legacy_ids]
          [] line = 167 ->
               [db |-> InsertWithIds(d, "campaign_month_weights", payload),
                at |-> 0, legacy_ids |-> legacy_ids]

\* line 148: select the rows of the campaign and keep the ids of its legacy
\* rows; line 154, when there are such ids: delete the rows that have them;
\* line 167, when there is a payload: insert it
save_month_weights(d, line, campaign_id, ws, legacy_ids) ==
    LET payload == WeightPayload(campaign_id, None, ws)
        then_insert == IF payload # <<>> THEN 167 ELSE 0
    IN  CASE line = 148 ->
               LET rows == SelectEq(d, "campaign_month_weights",
                                    "campaign_id", campaign_id)
                   legacy == SelectSeq(rows,
                                       LAMBDA r : IsNone(r.product_id))
                   ids == [i \in DOMAIN legacy |-> legacy[i].id]
               IN  [db |-> d, at |-> IF ids # <<>> THEN 154 ELSE then_insert,
                    legacy_ids |-> ids]
          [] line = 154 ->
               [db |-> DeleteIds(d, "campaign_month_weights",
                                 Range(legacy_ids)),
                at |-> then_insert, legacy_ids |-> legacy_ids]
          [] line = 167 ->
               [db |-> InsertWithIds(d, "campaign_month_weights", payload),
                at |-> 0, legacy_ids |-> legacy_ids]

\* supabase.table(t).delete().eq("campaign_id", c).eq("product_id", pid)
DeleteProductWeights(d, campaign_id, pid) ==
    [d EXCEPT !["campaign_month_weights"] =
        SelectSeq(@, LAMBDA r : ~(r.campaign_id = campaign_id
                                  /\ r.product_id = Some(pid)))]

\* the loop over weights_by_product.items(), todo being the items from the
\* one in progress on.  Line 216: delete the rows of the product; line 230,
\* when the product has a payload: insert it; then the next product.
save_product_month_weights(d, line, campaign_id, todo) ==
    LET pid == Head(todo)[1]
        payload == WeightPayload(campaign_id, Some(pid), Head(todo)[2])
        next_product == IF Tail(todo) = <<>> THEN 0 ELSE 216
    IN  IF line = 216
        THEN [db |-> DeleteProductWeights(d, campaign_id, pid),
              at |-> IF payload # <<>> THEN 230 ELSE next_product,
              todo |-> IF payload # <<>> THEN todo ELSE Tail(todo)]
        ELSE [db |-> InsertWithIds(d, "campaign_month_weights", payload),
              at |-> next_product, todo |-> Tail(todo)]

\* the rows save_size_breakdown inserts: for every product of the dict, in
\* its order, the sizes with float(qty) > 0
RECURSIVE SizePayload(_, _)
SizePayload(campaign_id, sb) ==
    IF sb = <<>> THEN <<>>
    ELSE LET pid == Head(sb)[1]
             kept == SelectSeq(Head(sb)[2], LAMBDA kv : RLess(RZero, kv[2]))
         IN  [i \in DOMAIN kept |->
                [campaign_id |-> campaign_id, product_id |-> pid,
                 size |-> kept[i][1], qty |-> Some(kept[i][2])]]
             \o SizePayload(campaign_id, Tail(sb))

\* line 260: delete the size rows of the campaign; line 275, when there is
\* a payload: insert it
save_size_breakdown(d, line, campaign_id, sb) ==
    LET payload == SizePayload(campaign_id, sb)
    IN  IF line = 260
        THEN [db |-> DeleteCampaignRows(d, "campaign_size_breakdown",
                                        campaign_id),
              at |-> IF payload # <<>> THEN 275 ELSE 0]
        ELSE [db |-> [d EXCEPT !["campaign_size_breakdown"] = @ \o payload],
              at |-> 0]

\* The Save button of the forecast page (pages/2_Forecast_Dashboard.py,
\* lines 389-404): save_campaign_products; in Custom mode with monthly
\* percentages, save_product_month_weights; with the size breakdown
\* enabled, save_size_breakdown.  given holds the three arguments, todo the
\* products whose percentages are still to be saved.
save_forecast_inputs(d, line, campaign_id, given, todo) ==
    LET with_weights == /\ ~IsNone(given.product_month_weights)
                        /\ given.product_month_weights.val # <<>>
        then_sizes == IF IsNone(given.size_breakdown) THEN 0 ELSE 260
        then_weights == IF with_weights THEN 216 ELSE then_sizes
    IN  CASE line \in {96, 109} ->
               LET out == save_campaign_products(d, line, campaign_id,
                                                 given.quantities)
               IN  [db |-> out.db,
                    at |-> IF out.at = 0 THEN then_weights ELSE out.at,
                    todo |-> IF with_weights
                             THEN given.product_month_weights.val ELSE <<>>]
          [] line \in {216, 230} ->
               LET out == save_product_month_weights(d, line, campaign_id,
                                                     todo)
               IN  [db |-> out.db,
                    at |-> IF out.at = 0 THEN then_sizes ELSE out.at,
                    todo |-> out.todo]
          [] line \in {260, 275} ->
               LET out == save_size_breakdown(d, line, campaign_id,
                                              given.size_breakdown.val)
               IN  [db |-> out.db, at |-> out.at, todo |-> <<>>]

-----------------------------------------------------------------------------
(* modules/scenario_engine.py: overrides *)

\* fault variant: the return rate is left out of the realised price
scenario_effective_price_noreturn(p) ==
    RMul(p.price_bdt, RSub(ROne, p.discount_rate))

scenario_effective_price(p) ==
    LET after_discount == RMul(p.price_bdt, RSub(ROne, p.discount_rate))
    IN  RMul(after_discount, RSub(ROne, p.return_rate))

\* fault variant: a cost override is added to the four cost components
scenario_total_unit_cost_additive(p) ==
    LET parts == RAdd(RAdd(RAdd(p.manufacturing_cost_bdt,
                                p.packaging_cost_bdt),
                           p.shipping_cost_bdt),
                      p.marketing_cost_bdt)
    IN  IF ~IsNone(p.cost_override_total_bdt)
        THEN RAdd(p.cost_override_total_bdt.val, parts)
        ELSE parts

scenario_total_unit_cost(p) ==
    IF ~IsNone(p.cost_override_total_bdt)
    THEN p.cost_override_total_bdt.val
    ELSE RAdd(RAdd(RAdd(p.manufacturing_cost_bdt, p.packaging_cost_bdt),
                   p.shipping_cost_bdt),
              p.marketing_cost_bdt)

scenario_unit_net_profit(p) ==
    RSub(scenario_effective_price(p), scenario_total_unit_cost(p))

\* {o[key]: o for o in overrides}: the last row of a key wins
OvMap(overrides, key) ==
    [k \in {overrides[i][key] : i \in DOMAIN overrides} |->
        overrides[CHOOSE i \in DOMAIN overrides :
                     /\ overrides[i][key] = k
                     /\ \A j \in DOMAIN overrides :
                           overrides[j][key] = k => j <= i]]

\* the ScenarioProduct of one catalogue product (lines 136-170)
ScenarioProductOf(p, ov_map) ==
    LET has == p.id \in DOMAIN ov_map
        o == ov_map[p.id]
    IN  [id |-> p.id, name |-> p.name, category |-> p.category,
         price_bdt |->
            IF has /\ ~IsNone(o.price_override)
            THEN o.price_override.val ELSE p.price_bdt,
         manufacturing_cost_bdt |-> p.manufacturing_cost_bdt,
         packaging_cost_bdt |-> p.packaging_cost_bdt,
         shipping_cost_bdt |-> p.shipping_cost_bdt,
         marketing_cost_bdt |-> p.marketing_cost_bdt,
         return_rate |->
            IF has /\ ~IsNone(o.return_rate_override)
            THEN RDiv(o.return_rate_override.val, RInt(100))
            ELSE p.return_rate,
         discount_rate |->
            IF has /\ ~IsNone(o.discount_override)
            THEN RDiv(o.discount_override.val, RInt(100))
            ELSE p.discount_rate,
         cost_override_total_bdt |->
            IF has /\ ~IsNone(o.cost_override)
            THEN Some(o.cost_override.val) ELSE None]

\* product id -> ScenarioProduct; the last catalogue product of an id wins
apply_product_overrides(ps, overrides) ==
    LET ov_map == OvMap(overrides, "product_id")
    IN  [id \in DOMAIN ProdMap(ps) |->
            ScenarioProductOf(ProdMap(ps)[id], ov_map)]

\* fault variant: a quantity override is added to the base quantity
RECURSIVE apply_quantity_overrides_additive(_, _)
apply_quantity_overrides_additive(base_quantities, overrides) ==
    IF overrides = <<>> THEN base_quantities
    ELSE LET o == Head(overrides)
             old == IF o.product_id \in Keys(base_quantities)
                    THEN Get(base_quantities, o.product_id) ELSE RZero
         IN  apply_quantity_overrides_additive(
                IF ~IsNone(o.qty_override)
                THEN SetItem(base_quantities, o.product_id,
                             RAdd(old, o.qty_override.val))
                ELSE base_quantities,
                Tail(overrides))

\* out = dict(base_quantities), then out[pid] = qty_override for every
\* override row with a non-null qty_override, in the order of the rows
RECURSIVE apply_quantity_overrides(_, _)
apply_quantity_overrides(base_quantities, overrides) ==
    IF overrides = <<>> THEN base_quantities
    ELSE LET o == Head(overrides)
         IN  apply_quantity_overrides(
                IF ~IsNone(o.qty_override)
                THEN SetItem(base_quantities, o.product_id, o.qty_override.val)
                ELSE base_quantities,
                Tail(overrides))

-----------------------------------------------------------------------------
(* modules/scenario_engine.py: build_scenario_forecast *)

\* distribution_mode_override or campaign.get("distribution_mode", "Uniform")
EffectiveMode(mode_override, c) ==
    IF ~IsNone(mode_override) /\ mode_override.val # ""
    THEN mode_override.val
    ELSE c.distribution_mode

\* the truth value of an optional dict: neither None nor empty
Truthy(od) == ~IsNone(od) /\ DOMAIN od.val # {}

\* {m: 1.0 for m in months}
AllOnes(ms) == [m \in Range(ms) |-> 1]

\* the shared weights of lines 231-235
ScenarioBaseWeights(md, cwo, bw, ms) ==
    IF md = "Custom"
    THEN LET weights_src == IF Truthy(cwo) THEN cwo.val
                            ELSE IF DOMAIN bw # {} THEN bw
                            ELSE AllOnes(ms)
         IN  build_distribution_weights(ms, "Custom", Some(weights_src))
    ELSE build_distribution_weights(ms, md, None)

\* fault variant: the weights stored for the product come before the
\* scenario's custom weights
ScenarioWeightsForPid_storedfirst(pid, md, cwo, bpw, bw, ms) ==
    IF md = "Custom"
    THEN IF DOMAIN bpw # {} /\ pid \in DOMAIN bpw
         THEN build_distribution_weights(ms, "Custom", Some(bpw[pid]))
         ELSE IF Truthy(cwo)
         THEN build_distribution_weights(ms, "Custom", cwo)
         ELSE IF DOMAIN bw # {}
         THEN build_distribution_weights(ms, "Custom", Some(bw))
         ELSE build_distribution_weights(ms, "Custom", Some(AllOnes(ms)))
    ELSE build_distribution_weights(ms, md, None)

\* weights_for_pid (lines 249-284)
ScenarioWeightsForPid(pid, md, cwo, bpw, bw, ms) ==
    IF md = "Custom"
    THEN IF Truthy(cwo)
         THEN build_distribution_weights(ms, "Custom", cwo)
         ELSE IF DOMAIN bpw # {} /\ pid \in DOMAIN bpw
         THEN build_distribution_weights(ms, "Custom", Some(bpw[pid]))
         ELSE IF DOMAIN bw # {}
         THEN build_distribution_weights(ms, "Custom", Some(bw))
         ELSE build_distribution_weights(ms, "Custom", Some(AllOnes(ms)))
    ELSE build_distribution_weights(ms, md, None)

\* sum(base_sizes[pid].values())
SizeSum(sdict) == RSum([i \in DOMAIN sdict |-> sdict[i][2]])

\* fault variant: the stored size quantities, not scaled
SizeRatio_unscaled(total, sdict) == ROne

\* base_total = sum(...) or 1; ratio = total_qty / base_total
SizeRatio(total, sdict) ==
    LET base_total == IF SizeSum(sdict) = RZero THEN ROne ELSE SizeSum(sdict)
    IN  RDiv(total, base_total)

ScenarioSizeRow(p, pid, size, adj_qty) ==
    [product_id        |-> pid,
     product_name      |-> p.name,
     size              |-> size,
     qty               |-> adj_qty,
     gross_revenue     |-> RMul(p.price_bdt, adj_qty),
     effective_revenue |-> RMul(scenario_effective_price(p), adj_qty),
     total_cost        |-> RMul(scenario_total_unit_cost(p), adj_qty),
     net_profit        |-> RMul(scenario_unit_net_profit(p), adj_qty)]

\* the size rows of one product (lines 290-311)
ScenarioProductSizeRows(p, pid, total, base_sizes) ==
    IF base_sizes # <<>> /\ pid \in Keys(base_sizes)
    THEN LET sdict == Get(base_sizes, pid)
         IN  [i \in 1..Len(sdict) |->
                ScenarioSizeRow(p, pid, sdict[i][1],
                    RMul(sdict[i][2], SizeRatio(total, sdict)))]
    ELSE <<>>

\* the monthly rows of one product (lines 313-331)
ScenarioProductMonthlyRows(p, pid, month_q, ms) ==
    [i \in 1..Len(ms) |->
        LET m == ms[i]
            q == month_q[m]
        IN  [month               |-> m,
             month_nice          |-> month_label_to_nice(m),
             product_id          |-> pid,
             product_name        |-> p.name,
             category            |-> p.category,
             qty                 |-> q,
             price_bdt           |-> p.price_bdt,
             effective_price_bdt |-> scenario_effective_price(p),
             gross_revenue       |-> RMul(p.price_bdt, q),
             effective_revenue   |-> RMul(scenario_effective_price(p), q),
             total_cost          |-> RMul(scenario_total_unit_cost(p), q),
             net_profit          |-> RMul(scenario_unit_net_profit(p), q)]]

\* the loop over quantities.items() (line 240): the items whose product id
\* is in sp_map
ScenarioItems(spm, qs) == SelectSeq(qs, LAMBDA it : it[1] \in DOMAIN spm)

RECURSIVE ScenarioMonthlyRows(_, _, _, _)
ScenarioMonthlyRows(spm, items, pw, ms) ==
    IF items = <<>> THEN <<>>
    ELSE LET pid == Head(items)[1]
             month_q == distribute_quantity(Head(items)[2], pw[pid])
         IN  ScenarioProductMonthlyRows(spm[pid], pid, month_q, ms)
             \o ScenarioMonthlyRows(spm, Tail(items), pw, ms)

RECURSIVE ScenarioSizeRows(_, _, _)
ScenarioSizeRows(spm, items, base_sizes) ==
    IF items = <<>> THEN <<>>
    ELSE LET pid == Head(items)[1]
         IN  ScenarioProductSizeRows(spm[pid], pid, Head(items)[2],
                                     base_sizes)
             \o ScenarioSizeRows(spm, Tail(items), base_sizes)

\* the tables _fetch_campaign_opex_items tries, in this order
PossibleTables ==
    <<"campaign_opex_links", "campaign_opex_items", "campaign_opex">>

\* the rows of the first table whose select of "opex_item_id" does not
\* raise, or [] when every select raises (lines 97-110)
RECURSIVE FetchFrom(_, _, _)
FetchFrom(d, campaign_id, tables) ==
    IF tables = <<>> THEN <<>>
    ELSE IF SelectRaises(d, Head(tables), "opex_item_id")
    THEN FetchFrom(d, campaign_id, Tail(tables))
    ELSE SelectEq(d, Head(tables), "campaign_id", campaign_id)

fetch_campaign_opex_items(d, campaign_id) ==
    FetchFrom(d, campaign_id, PossibleTables)

\* select * from opex_items where id in ids
fetch_opex_library_by_ids(d, ids) ==
    IF ids = <<>> THEN <<>>
    ELSE SelectSeq(d["opex_items"], LAMBDA it : it.id \in Range(ids))

\* What build_scenario_forecast holds of the store: resp.data of each of
\* its requests, and the line of the request it sends next (at), 0 outside
\* a call.  tables are the possible tables still to be tried.
NoResponses ==
    [at |-> 0, quantities |-> <<>>, month_weights |-> <<>>,
     product_month_weights |-> <<>>, sizes |-> <<>>,
     tables |-> PossibleTables, attached |-> <<>>, library |-> <<>>]

\* The requests of build_scenario_forecast, one at a time: the rows of the
\* campaign in campaign_quantities (line 215), twice those in
\* campaign_month_weights (lines 218 and 221), those in
\* campaign_size_breakdown (line 223); one select of "opex_item_id" per
\* possible table until one is answered (line 372; a select that raises is
\* caught and the next table is tried); the library rows of the attached
\* ids, when there are any (line 374).  answered says whether the store
\* answers the request; r is what the call holds before it.
NextResponse(d, r, campaign_id, answered) ==
    CASE r.at = 215 ->
           [r EXCEPT !.at = 218,
                     !.quantities = SelectEq(d, "campaign_quantities",
                                             "campaign_id", campaign_id)]
      [] r.at = 218 ->
           [r EXCEPT !.at = 221,
                     !.month_weights = SelectEq(d, "campaign_month_weights",
                                                "campaign_id", campaign_id)]
      [] r.at = 221 ->
           [r EXCEPT !.at = 223,
                     !.product_month_weights =
                         SelectEq(d, "campaign_month_weights",
                                  "campaign_id", campaign_id)]
      [] r.at = 223 ->
           [r EXCEPT !.at = 372,
                     !.sizes = SelectEq(d, "campaign_size_breakdown",
                                        "campaign_id", campaign_id)]
      [] r.at = 372 ->
           IF ~answered \/ SelectRaises(d, Head(r.tables), "opex_item_id")
           THEN [r EXCEPT !.tables = Tail(r.tables),
                          !.at = IF Tail(r.tables) = <<>> THEN 0 ELSE 372]
           ELSE LET rows == SelectEq(d, Head(r.tables), "campaign_id",
                                     campaign_id)
                IN  [r EXCEPT !.attached = rows,
                              !.at = IF rows = <<>> THEN 0 ELSE 374]
      [] r.at = 374 ->
           [r EXCEPT !.at = 0,
                     !.library =
                         fetch_opex_library_by_ids(d,
                             [i \in DOMAIN r.attached |->
                                 r.attached[i].opex_item_id])]

\* the cost of a library item under the scenario's overrides (lines 381-388)
EffectiveCost(it, ov_map) ==
    IF it.id \in DOMAIN ov_map /\ ~IsNone(ov_map[it.id].cost_override)
    THEN ov_map[it.id].cost_override.val
    ELSE it.cost_bdt

\* what one library item adds to opex_total (lines 390-402)
ItemOpex(it, ov_map, ms) ==
    IF it.is_one_time THEN EffectiveCost(it, ov_map)
    ELSE LET start_m == IF IsNone(it.start_month) THEN ms[1]
                        ELSE it.start_month.val
             end_m == IF IsNone(it.end_month) THEN ms[Len(ms)]
                      ELSE it.end_month.val
             hits == SelectSeq(ms, LAMBDA m :
                                      StrLeq(start_m, m) /\ StrLeq(m, end_m))
         IN  RMul(EffectiveCost(it, ov_map), RInt(Len(hits)))

\* opex_total over the library items read (lines 369-402)
OpexTotal(items, overrides, ms) ==
    LET ov_map == OvMap(overrides, "opex_item_id")
    IN  RSum([i \in DOMAIN items |-> ItemOpex(items[i], ov_map, ms)])

\* fault variant: OPEX is added to the variable profit
ScenarioTotals_added(rows, opex_total) ==
    LET np == IF rows = <<>> THEN RZero ELSE ColumnSum(rows, "net_profit")
    IN  [campaign_qty          |-> ColumnSum(rows, "qty"),
         gross_revenue         |-> ColumnSum(rows, "gross_revenue"),
         effective_revenue     |-> ColumnSum(rows, "effective_revenue"),
         total_cost            |-> ColumnSum(rows, "total_cost"),
         net_profit_variable   |-> np,
         opex_total            |-> opex_total,
         net_profit_after_opex |-> RAdd(np, opex_total)]

\* the totals dict (lines 358-405)
ScenarioTotals(rows, opex_total) ==
    LET col(c) == IF rows = <<>> THEN RZero ELSE ColumnSum(rows, c)
    IN  [campaign_qty          |-> col("qty"),
         gross_revenue         |-> col("gross_revenue"),
         effective_revenue     |-> col("effective_revenue"),
         total_cost            |-> col("total_cost"),
         net_profit_variable   |-> col("net_profit"),
         opex_total            |-> opex_total,
         net_profit_after_opex |-> RSub(col("net_profit"), opex_total)]

-----------------------------------------------------------------------------
(* modules/opex_db.py: campaign linkage *)

\* the rows of table t that delete().eq(key, val) leaves
DeleteEq(d, t, key, val) == SelectSeq(d[t], LAMBDA r : r[key] # val)

\* insert the item; the store generates its id.  The columns created_at
\* and updated_at hold the time of the call, which no computation of the
\* engine reads; the rows of the model leave them out.
insert_opex_item(d, data, new_id) ==
    [d EXCEPT !["opex_items"] =
        Append(@, [k \in DOMAIN data \cup {"id"} |->
                      IF k = "id" THEN new_id ELSE data[k]])]

\* set the fields on the row of the item; resp.data[0] raises IndexError
\* when no row has the id
update_opex_item(d, opex_id, fields) ==
    LET rows == d["opex_items"]
        d1 == [d EXCEPT !["opex_items"] =
                  [i \in DOMAIN rows |->
                      IF rows[i].id = opex_id
                      THEN [c \in DOMAIN rows[i] |->
                              IF c \in DOMAIN fields THEN fields[c]
                              ELSE rows[i][c]]
                      ELSE rows[i]]]
    IN  [db |-> d1,
         error |-> IF \E i \in DOMAIN rows : rows[i].id = opex_id
                   THEN None ELSE Some("list index out of range")]

\* delete the row of the item; the links that name it stay
delete_opex_item(d, opex_id) ==
    [d EXCEPT !["opex_items"] = DeleteEq(d, "opex_items", "id", opex_id)]

\* line 78: delete the links of the campaign; line 82, when ids are given:
\* insert one row per id
save_campaign_opex_links(d, line, campaign_id, ids) ==
    IF line = 78
    THEN [db |-> [d EXCEPT !["campaign_opex"] =
                     DeleteEq(d, "campaign_opex", "campaign_id", campaign_id)],
          at |-> IF ids # <<>> THEN 82 ELSE 0]
    ELSE [db |-> [d EXCEPT !["campaign_opex"] =
                     @ \o [i \in DOMAIN ids |->
                             [campaign_id |-> campaign_id,
                              opex_id |-> ids[i]]]],
          at |-> 0]

\* the opex ids linked to a campaign
fetch_campaign_opex_links(d, campaign_id) ==
    LET rows == SelectEq(d, "campaign_opex", "campaign_id", campaign_id)
    IN  [i \in DOMAIN rows |-> rows[i].opex_id]

-----------------------------------------------------------------------------
(* modules/scenarios_db.py *)

\* The store generates the id of an inserted scenario: the n-th id is
\* "s<n>".  Rows of the other scenario tables are modelled without their
\* generated id column, which duplicate_scenario drops before it inserts.
ScenarioIdOf(n) == <<115, 48 + n>>

\* supabase.table(t).insert(rows).execute()
Insert(d, t, rows) == [d EXCEPT ![t] = @ \o rows]

\* supabase.table(t).delete().eq(key, val).execute()
Delete(d, t, key, val) == [d EXCEPT ![t] = DeleteEq(d, t, key, val)]

\* the store and the generated-id count after the request of
\* create_scenario (line 36), and the row it returns
create_scenario(d, seq, name, description, base_campaign_id) ==
    LET row == [id |-> ScenarioIdOf(seq + 1), name |-> name,
                description |-> description,
                base_campaign_id |-> base_campaign_id]
    IN  [db |-> Insert(d, "scenarios", <<row>>), id_seq |-> seq + 1,
         row |-> row]

\* the store after the request of update_scenario (line 43), the row it
\* returns and the exception it raises: the columns named by fields are
\* rewritten in the row of the scenario; resp.data[0] raises when no row
\* has the id
update_scenario(d, sid, fields) ==
    LET rows == d["scenarios"]
        d1 == [d EXCEPT !["scenarios"] =
                  [i \in DOMAIN rows |->
                      IF rows[i].id = sid
                      THEN [c \in DOMAIN rows[i] |->
                              IF c \in DOMAIN fields THEN fields[c]
                              ELSE rows[i][c]]
                      ELSE rows[i]]]
        found == SelectEq(d1, "scenarios", "id", sid)
    IN  IF found = <<>>
        THEN [db |-> d1, new_s |-> None,
              error |-> Some("list index out of range")]
        ELSE [db |-> d1, new_s |-> Some(found[1]), error |-> None]

fetch_scenario_products(d, sid) ==
    SelectEq(d, "scenario_products", "scenario_id", sid)

fetch_scenario_opex(d, sid) == SelectEq(d, "scenario_opex", "scenario_id", sid)

fetch_scenario_fx(d, sid) == SelectEq(d, "scenario_fx", "scenario_id", sid)

fetch_scenario_campaign_links(d, sid) ==
    SelectEq(d, "scenario_campaign_links", "scenario_id", sid)

\* line 144: delete the product overrides of the scenario; line 161, when
\* rows are given: insert them
save_scenario_products(d, line, sid, rows) ==
    IF line = 144
    THEN [db |-> Delete(d, "scenario_products", "scenario_id", sid),
          at |-> IF rows # <<>> THEN 161 ELSE 0]
    ELSE [db |-> Insert(d, "scenario_products",
                   [i \in DOMAIN rows |->
                      [scenario_id |-> sid, product_id |-> rows[i].product_id,
                       price_override |-> rows[i].price_override,
                       discount_override |-> rows[i].discount_override,
                       return_rate_override |-> rows[i].return_rate_override,
                       cost_override |-> rows[i].cost_override,
                       qty_override |-> rows[i].qty_override]]),
          at |-> 0]

\* line 176: delete the OPEX overrides of the scenario; line 189, when rows
\* are given: insert them
save_scenario_opex(d, line, sid, rows) ==
    IF line = 176
    THEN [db |-> Delete(d, "scenario_opex", "scenario_id", sid),
          at |-> IF rows # <<>> THEN 189 ELSE 0]
    ELSE [db |-> Insert(d, "scenario_opex",
                   [i \in DOMAIN rows |->
                      [scenario_id |-> sid,
                       opex_item_id |-> rows[i].opex_item_id,
                       cost_override |-> rows[i].cost_override]]),
          at |-> 0]

\* line 204: delete the FX rows of the scenario; line 217, when rows are
\* given: insert them
save_scenario_fx(d, line, sid, rows) ==
    IF line = 204
    THEN [db |-> Delete(d, "scenario_fx", "scenario_id", sid),
          at |-> IF rows # <<>> THEN 217 ELSE 0]
    ELSE [db |-> Insert(d, "scenario_fx",
                   [i \in DOMAIN rows |->
                      [scenario_id |-> sid, currency |-> rows[i].currency,
                       rate |-> rows[i].rate]]),
          at |-> 0]

\* fault variant: the request of line 121 deletes nothing
link_scenario_to_campaign_added(d, line, sid, campaign_id) ==
    IF line = 121
    THEN [db |-> d, at |-> 123]
    ELSE [db |-> Insert(d, "scenario_campaign_links",
                        <<[scenario_id |-> sid, campaign_id |-> campaign_id]>>),
          at |-> 0]

\* one link per scenario.  Line 121: delete the links of the scenario;
\* line 123: insert the new one
link_scenario_to_campaign(d, line, sid, campaign_id) ==
    IF line = 121
    THEN [db |-> Delete(d, "scenario_campaign_links", "scenario_id", sid),
          at |-> 123]
    ELSE [db |-> Insert(d, "scenario_campaign_links",
                        <<[scenario_id |-> sid, campaign_id |-> campaign_id]>>),
          at |-> 0]

\* the rows read of the copied scenario, re-keyed to scenario new_id
CopyRows(rows, new_id) ==
    [i \in DOMAIN rows |-> [rows[i] EXCEPT !.scenario_id = new_id]]

\* the four copies of duplicate_scenario: the line of the fetch, the line
\* of the insert and the table
DuplicateCopies ==
    <<[fetch |-> 74, insert |-> 79, table |-> "scenario_products"],
      [fetch |-> 82, insert |-> 87, table |-> "scenario_opex"],
      [fetch |-> 90, insert |-> 95, table |-> "scenario_fx"],
      [fetch |-> 98, insert |-> 103, table |-> "scenario_campaign_links"]>>

\* the line of the fetch that follows the k-th copy, 0 after the last
FetchAfter(k) ==
    IF k = Len(DuplicateCopies) THEN 0 ELSE DuplicateCopies[k + 1].fetch

\* what duplicate_scenario holds between its requests: the row of the
\* scenario to copy, the row of the new scenario and the rows fetched last
NoCopy == [base |-> None, new_s |-> None, rows |-> <<>>]

\* lines 65-105, the scenario being found: create_scenario (line 65), then
\* for each of the four tables the fetch of the rows of scenario sid and,
\* when there are rows, their insert for the new scenario; `returns` is the
\* row the call returns when it has sent its last request
CopyStep(d, seq, line, sid, nm, loc) ==
    IF line = 65
    THEN LET made == create_scenario(d, seq, nm, loc.base.val.description,
                                     loc.base.val.base_campaign_id)
         IN  [db |-> made.db, id_seq |-> made.id_seq, at |-> 74,
              loc |-> [loc EXCEPT !.new_s = Some(made.row)],
              returns |-> None, error |-> None]
    ELSE LET k == CHOOSE j \in DOMAIN DuplicateCopies :
                      line \in {DuplicateCopies[j].fetch,
                                DuplicateCopies[j].insert}
             t == DuplicateCopies[k].table
             rows == SelectEq(d, t, "scenario_id", sid)
             next == IF line = DuplicateCopies[k].insert \/ rows = <<>>
                     THEN FetchAfter(k) ELSE DuplicateCopies[k].insert
         IN  [db |-> IF line = DuplicateCopies[k].insert
                     THEN Insert(d, t, CopyRows(loc.rows, loc.new_s.val.id))
                     ELSE d,
              id_seq |-> seq, at |-> next,
              loc |-> IF line = DuplicateCopies[k].fetch
                      THEN [loc EXCEPT !.rows = rows] ELSE loc,
              returns |-> IF next = 0 THEN loc.new_s ELSE None,
              error |-> None]

\* fault variant: the copy is created before the scenario is looked up
duplicate_scenario_createfirst(d, seq, line, sid, nm, loc) ==
    IF line = 60
    THEN LET found == SelectEq(d, "scenarios", "id", sid)
             made == create_scenario(d, seq, nm, "", None)
         IN  IF found = <<>>
             THEN [db |-> made.db, id_seq |-> made.id_seq, at |-> 0,
                   loc |-> loc, returns |-> None,
                   error |-> Some("Scenario not found")]
             ELSE [db |-> d, id_seq |-> seq, at |-> 65,
                   loc |-> [loc EXCEPT !.base = Some(found[1])],
                   returns |-> None, error |-> None]
    ELSE CopyStep(d, seq, line, sid, nm, loc)

\* duplicate_scenario, request by request.  Line 60: select the scenario;
\* without a row the call raises ValueError("Scenario not found") (line
\* 62) before any other request.
duplicate_scenario(d, seq, line, sid, nm, loc) ==
    IF line = 60
    THEN LET found == SelectEq(d, "scenarios", "id", sid)
         IN  IF found = <<>>
             THEN [db |-> d, id_seq |-> seq, at |-> 0, loc |-> loc,
                   returns |-> None, error |-> Some("Scenario not found")]
             ELSE [db |-> d, id_seq |-> seq, at |-> 65,
                   loc |-> [loc EXCEPT !.base = Some(found[1])],
                   returns |-> None, error |-> None]
    ELSE CopyStep(d, seq, line, sid, nm, loc)

\* the tables whose rows refer to a scenario
ScenarioChildTables ==
    <<"scenario_products", "scenario_opex", "scenario_fx",
      "scenario_campaign_links">>

\* the store after the rows of scenario sid are deleted from tables ts
RECURSIVE DeleteChildren(_, _, _)
DeleteChildren(d, ts, sid) ==
    IF ts = <<>> THEN d
    ELSE DeleteChildren(Delete(d, Head(ts), "scenario_id", sid), Tail(ts), sid)

\* the store after the request of delete_scenario (line 50) and the
\* exception it raises: the row of the scenario is deleted, no row is
\* looked up first and nothing is raised when there is none.  The rows of
\* the other tables go, within the same request, when the foreign keys of
\* the store cascade, which the code relies on and the repository does not
\* define: cascades says whether they do.
delete_scenario(d, sid, cascades) ==
    LET d1 == Delete(d, "scenarios", "id", sid)
    IN  [db |-> IF cascades /\ SelectEq(d, "scenarios", "id", sid) # <<>>
                THEN DeleteChildren(d1, ScenarioChildTables, sid)
                ELSE d1,
         error |-> None]

-----------------------------------------------------------------------------
(* Input domains *)

\* the month with index k, counting months from year 0
YM(k) == [year |-> k \div 12, month |-> (k % 12) + 1]
MonthIndex(d) == d.year * 12 + d.month - 1

\* the campaign window: MaxMonths months starting in November 2025,
\* so that a campaign can run over the turn of the year
WindowStart == MonthIndex([year |-> 2025, month |-> 11])
WindowLabel(k) == Label(YM(WindowStart + k).year, YM(WindowStart + k).month)
WindowLabels == {WindowLabel(k) : k \in 0..(MaxMonths - 1)}

\* every contiguous list of window months, the empty list included
MonthLists ==
    {[i \in 1..kn[2] |-> WindowLabel(kn[1] + i - 1)] :
        kn \in {x \in (0..(MaxMonths - 1)) \X (0..MaxMonths) :
                    x[1] + x[2] <= MaxMonths}}

WeightValues == {-1, 0, 1, 3}

\* a missing map, or a map from any set of window months to weight values
CustomMaps ==
    {None} \cup
    {Some(f) : f \in UNION {[ks -> WeightValues] : ks \in SUBSET WindowLabels}}

QtyValues == {RInt(0), RInt(100)}

CalendarYears == 2025..(2025 + MaxYears - 1)
CalendarDates ==
    [year : CalendarYears, month : 1..12, day : {1, 28}]

\* product ids, as character codes: "p1", "p2"
Pid1 == <<112, 49>>
Pid2 == <<112, 50>>

\* price 2000, discount 10 %, return 5 %, unit costs 800 + 100 + 150 + 120
Product1 ==
    [id |-> Pid1, name |-> "Thobe", category |-> "Apparel",
     price_bdt |-> RInt(2000),
     manufacturing_cost_bdt |-> RInt(800), packaging_cost_bdt |-> RInt(100),
     shipping_cost_bdt |-> RInt(150), marketing_cost_bdt |-> RInt(120),
     return_rate |-> Rat(5, 100), discount_rate |-> Rat(10, 100)]

\* a give-away: price 0, manufacturing cost 50
Product2 ==
    [id |-> Pid2, name |-> "Sample", category |-> "Promo",
     price_bdt |-> RInt(0),
     manufacturing_cost_bdt |-> RInt(50), packaging_cost_bdt |-> RInt(0),
     shipping_cost_bdt |-> RInt(0), marketing_cost_bdt |-> RInt(0),
     return_rate |-> RZero, discount_rate |-> RZero]

PoolIds == {Pid1, Pid2}

\* the catalogue holds any of the two products; an id of the pool that is
\* not in the catalogue is an unknown product id
Catalogues == {<<>>, <<Product1>>, <<Product2>>, <<Product1, Product2>>}

\* quantities: a dict over any pool ids, in either insertion order
QuantityDicts ==
    {<<>>}
    \cup {<< <<a, q>> >> : a \in PoolIds, q \in QtyValues}
    \cup {<< <<ab[1], q1>>, <<ab[2], q2>> >> :
            ab \in {x \in PoolIds \X PoolIds : x[1] # x[2]},
            q1 \in QtyValues, q2 \in QtyValues}

\* campaign-level custom weights of a forecast: 3 : 1 on the first two
\* window months, or none
LegacyWeights == (WindowLabel(0) :> 3) @@ (WindowLabel(1) :> 1)
ForecastCustomMaps == {None, Some(LegacyWeights)}

\* per-product weights: 1 : 3 for p1, a map without positive weight for p2
OwnWeights(pid) ==
    IF pid = Pid1 THEN (WindowLabel(0) :> 1) @@ (WindowLabel(1) :> 3)
    ELSE (WindowLabel(0) :> 0) @@ (WindowLabel(1) :> -1)
PerProductMaps ==
    {None} \cup
    {Some([pid \in S |-> OwnWeights(pid)]) : S \in {{}, {Pid1}, PoolIds}}

Sizes1 == << <<"S", RInt(30)>>, <<"M", RInt(70)>> >>
Sizes2 == << <<"M", RInt(5)>> >>
SizeBreakdowns == {None, Some(<< <<Pid1, Sizes1>>, <<Pid2, Sizes2>> >>)}

\* campaigns start in the first window month and end in any window month,
\* or are given with the two dates the wrong way round
WindowDate(k) ==
    [year |-> YM(WindowStart + k).year, month |-> YM(WindowStart + k).month,
     day |-> 1]
CampaignSpans ==
    {<<WindowDate(0), WindowDate(k)>> : k \in 0..(MaxMonths - 1)}
    \cup {<<WindowDate(MaxMonths - 1), WindowDate(0)>>}

\* start and end months of OPEX items: the window months, the month before
\* and the month after
OpexLabels == {WindowLabel(k) : k \in -1..MaxMonths}

OpexItem(n, start, end, one_time) ==
    [id |-> <<111, 48 + n>>, name |-> "Rent", category |-> "Office",
     cost_bdt |-> RInt(500 * n), start_month |-> start, end_month |-> end,
     is_one_time |-> one_time, notes |-> ""]

OpexItems(n) ==
    {OpexItem(n, s, e, o) :
        s \in OpexLabels, e \in {None} \cup {Some(l) : l \in OpexLabels},
        o \in BOOLEAN}

\* no item, one item, or two items with different ids and costs
OpexItemLists ==
    {<<>>} \cup {<<a>> : a \in OpexItems(1)}
    \cup {<<a, b>> : a \in OpexItems(1), b \in OpexItems(2)}

-----------------------------------------------------------------------------
(* Input domains of the scenario engine *)

\* the campaign row "c1"; "c2" is another campaign of the same store
CampaignRow(span, md) ==
    [id |-> "c1", start_date |-> IsoFormat(span[1]),
     end_date |-> IsoFormat(span[2]), distribution_mode |-> md]

\* rows of campaign_quantities: those of c1 from a quantities dict, and
\* one row of c2
QuantityRows(items) ==
    [i \in DOMAIN items |->
        [id |-> i, campaign_id |-> "c1", product_id |-> items[i][1],
         total_qty |-> Some(items[i][2])]]
    \o <<[id |-> 9, campaign_id |-> "c2", product_id |-> Pid1,
          total_qty |-> Some(RInt(7))]>>

\* rows of campaign_month_weights on the first two window months
WeightRows(cid, opid, w) ==
    <<[id |-> 1, campaign_id |-> cid, product_id |-> opid,
       month_label |-> WindowLabel(0), weight |-> w[WindowLabel(0)]],
      [id |-> 2, campaign_id |-> cid, product_id |-> opid,
       month_label |-> WindowLabel(1), weight |-> w[WindowLabel(1)]]>>

\* no legacy rows, or the legacy rows 3 : 1
LegacyRowSets == {<<>>, WeightRows("c1", None, LegacyWeights)}

\* no per-product rows, rows of p1 only, rows of both products
ProductRowSets ==
    {<<>>,
     WeightRows("c1", Some(Pid1), OwnWeights(Pid1)),
     WeightRows("c1", Some(Pid1), OwnWeights(Pid1))
        \o WeightRows("c1", Some(Pid2), OwnWeights(Pid2))}

\* rows of campaign_size_breakdown of product p1 in campaign c1
SizeRowsOf(sizes) ==
    [i \in DOMAIN sizes |->
        [campaign_id |-> "c1", product_id |-> Pid1, size |-> sizes[i][1],
         qty |-> sizes[i][2]]]

\* the sizes of p1: none; 30 + 70, the campaign quantity 100; 30 + 30,
\* which is not; and a split whose quantities are null and 0
StoredSizes ==
    {<<>>,
     << <<"S", Some(RInt(30))>>, <<"M", Some(RInt(70))>> >>,
     << <<"S", Some(RInt(30))>>, <<"M", Some(RInt(30))>> >>,
     << <<"S", None>>, <<"M", Some(RInt(0))>> >>}

\* rows with the ids of a table that generates them
Numbered(rows) == [i \in DOMAIN rows |-> [rows[i] EXCEPT !.id = i]]

\* the tables a campaign's forecast reads
CampaignDb(qitems, legacy, perproduct, sizes) ==
    [campaign_quantities |-> QuantityRows(qitems),
     campaign_month_weights |-> Numbered(legacy \o perproduct),
     campaign_size_breakdown |-> SizeRowsOf(sizes),
     campaign_opex |-> <<>>,
     opex_items |-> <<>>]

OverrideValues(v) == {None, Some(RInt(0)), Some(RInt(v))}

ProductOverride(pid, price, discount, ret, cost, qty) ==
    [scenario_id |-> ScenarioIdOf(1), product_id |-> pid,
     price_override |-> price,
     discount_override |-> discount, return_rate_override |-> ret,
     cost_override |-> cost, qty_override |-> qty]

BothAt100 == << <<Pid1, RInt(100)>>, <<Pid2, RInt(100)>> >>

ScenarioInput(ps, c, d, spo, soo, dmo, cwo) ==
    [products |-> ps, campaign |-> c, db |-> d,
     scenario_product_overrides |-> spo, scenario_opex_overrides |-> soo,
     distribution_mode_override |-> dmo, custom_weights_override |-> cwo]

FirstSpan == <<WindowDate(0), WindowDate(1)>>

\* price, discount, return-rate and cost overrides of p1, each unset, 0 or
\* a value, alone or followed by a row of p2; any catalogue
OverrideInputs ==
    {ScenarioInput(ps, CampaignRow(FirstSpan, "Uniform"),
                   CampaignDb(BothAt100, <<>>, <<>>, <<>>),
                   <<ProductOverride(Pid1, x[1], x[2], x[3], x[4], None)>>
                      \o more,
                   <<>>, None, None) :
        ps \in Catalogues,
        x \in OverrideValues(1500) \X OverrideValues(20) \X OverrideValues(8)
              \X OverrideValues(900),
        more \in {<<>>,
                  <<ProductOverride(Pid2, Some(RInt(10)), None, None, None,
                                    None)>>}}

QtyOverride(pid, qty) == ProductOverride(pid, None, None, None, None, qty)

\* override rows that touch quantities only: none, a row of p1 with the
\* quantity unset, 0 or 50, and the same followed by a row of p2 at 50
QtyOverrideLists ==
    {<<>>}
    \cup {<<QtyOverride(Pid1, q)>> : q \in OverrideValues(50)}
    \cup {<<QtyOverride(Pid1, q), QtyOverride(Pid2, Some(RInt(50)))>> :
            q \in OverrideValues(50)}

\* any stored quantities, catalogue and campaign span, in Uniform and
\* Front-loaded mode
QuantityInputs ==
    {ScenarioInput(ps, CampaignRow(span, md),
                   CampaignDb(qs, <<>>, <<>>, <<>>), spo, <<>>, None, None) :
        ps \in Catalogues, span \in CampaignSpans,
        md \in {"Uniform", "Front-loaded"}, qs \in QuantityDicts,
        spo \in QtyOverrideLists}

ModeOverrides == {None, Some(""), Some("Custom"), Some("Back-loaded")}

\* scenario-level custom weights: none, an empty map, 1 : 1 : 2 ... on the
\* window months, and a map without positive weight
ScenarioCustomMaps ==
    {None, Some(<<>>),
     Some([m \in WindowLabels |-> IF m = WindowLabel(0) THEN 1 ELSE 2]),
     Some([m \in WindowLabels |-> 0])}

\* any stored mode, the overrides of mode and weights, the stored legacy
\* and per-product rows; both products at 100 units, p1 overridden to 50
WeightInputs ==
    {ScenarioInput(<<Product1, Product2>>, CampaignRow(span, md),
                   CampaignDb(BothAt100, legacy, perproduct, <<>>),
                   <<QtyOverride(Pid1, Some(RInt(50)))>>, <<>>, dmo, cwo) :
        span \in CampaignSpans, md \in Modes, legacy \in LegacyRowSets,
        perproduct \in ProductRowSets, dmo \in ModeOverrides,
        cwo \in ScenarioCustomMaps}

\* the stored sizes of p1 against its stored quantity (100, or none) and
\* its quantity override
SizeInputs ==
    {ScenarioInput(<<Product1, Product2>>, CampaignRow(FirstSpan, "Uniform"),
                   CampaignDb(qs, <<>>, <<>>, sizes), spo, <<>>, None, None) :
        qs \in {<<>>, << <<Pid1, RInt(100)>> >>, BothAt100},
        sizes \in StoredSizes, spo \in QtyOverrideLists}

\* a campaign without scenario overrides: any catalogue, span, stored mode,
\* stored quantities, legacy rows and per-product rows
BaseInputs ==
    {ScenarioInput(ps, CampaignRow(span, md),
                   CampaignDb(qs, legacy, perproduct, <<>>),
                   <<>>, <<>>, None, None) :
        ps \in Catalogues, span \in CampaignSpans, md \in Modes,
        qs \in QuantityDicts, legacy \in LegacyRowSets,
        perproduct \in ProductRowSets}

ScenarioInputs ==
    OverrideInputs \cup QuantityInputs \cup WeightInputs \cup SizeInputs

\* the inputs of a forecast during which another session saves: both
\* products in the catalogue, the first span, stored mode Uniform or Custom
SharedInputs ==
    {in \in QuantityInputs \cup WeightInputs \cup SizeInputs :
        /\ Len(in.products) = 2
        /\ in.campaign.start_date = IsoFormat(FirstSpan[1])
        /\ in.campaign.end_date = IsoFormat(FirstSpan[2])
        /\ in.campaign.distribution_mode \in {"Uniform", "Custom"}}

-----------------------------------------------------------------------------
(* Input domains of the scenario engine: OPEX *)

OpexId(n) == <<111, 48 + n>>

\* a row of the OPEX library: item n costs 500 n
LibraryItem(n, start, end, one_time) ==
    [id |-> OpexId(n), name |-> "Rent", category |-> "Office",
     cost_bdt |-> RInt(500 * n), start_month |-> start, end_month |-> end,
     is_one_time |-> one_time, notes |-> ""]

OptionalLabels == {None} \cup {Some(l) : l \in OpexLabels}

\* the library: item 1, a recurring item 2 from the first window month on,
\* and an item 3 that no campaign row of c1 names
Library(item1) ==
    <<item1, LibraryItem(2, Some(WindowLabel(0)), None, FALSE),
      LibraryItem(3, None, None, FALSE)>>

\* rows (campaign_id, opex_item_id) of a link table the engine can read:
\* those of c1 for the items ns, and one of c2
EngineLinks(ns) ==
    [i \in DOMAIN ns |->
        [campaign_id |-> "c1", opex_item_id |-> OpexId(ns[i])]]
    \o <<[campaign_id |-> "c2", opex_item_id |-> OpexId(3)]>>

\* rows (campaign_id, opex_id) of campaign_opex
AppLinks(ns) ==
    [i \in DOMAIN ns |-> [campaign_id |-> "c1", opex_id |-> OpexId(ns[i])]]
    \o <<[campaign_id |-> "c2", opex_id |-> OpexId(3)]>>

\* The store of a campaign with OPEX.  The repository writes its links to
\* campaign_opex; whether the store also has a table campaign_opex_links
\* (engine = Some(rows)) is a matter of the deployment.
OpexDb(qitems, lib, app, engine) ==
    LET tables == CampaignDb(qitems, <<>>, <<>>, <<>>)
        base == [tables EXCEPT !.campaign_opex = app, !.opex_items = lib]
    IN  IF IsNone(engine) THEN base
        ELSE [t \in DOMAIN base \cup {"campaign_opex_links"} |->
                IF t = "campaign_opex_links" THEN engine.val ELSE base[t]]

\* the payload of the Add OPEX Item form: name, category and start month
\* filled, recurring and open-ended or one-time
NewOpexItems ==
    {[name |-> "Ads", category |-> "Marketing", cost_bdt |-> RInt(300),
      start_month |-> Some(WindowLabel(0)), end_month |-> None,
      is_one_time |-> ot, notes |-> ""] : ot \in BOOLEAN}

\* the id the store gives the inserted item: one no row of the library holds
NewOpexId == OpexId(4)

\* the fields update_opex_item is called with: the cost alone, and the
\* fields of the edit form
UpdatedOpexFields ==
    {[cost_bdt |-> RInt(900)],
     [name |-> "Rent", category |-> "Office", cost_bdt |-> RInt(900),
      start_month |-> Some(WindowLabel(0)), end_month |-> None,
      is_one_time |-> TRUE, notes |-> "paid once"]}

\* the items edited or deleted: item 1, and an id the library does not hold
EditedOpexIds == {OpexId(1), OpexId(9)}

\* the OPEX page saves the items attached to the campaign and the scenario
\* is forecast
SavedThenForecast == <<"save_campaign_opex_links", "build_scenario_forecast">>

\* the OPEX page may add, edit or delete a library item before that
OpexScripts ==
    {SavedThenForecast,
     <<"insert_opex_item", "save_campaign_opex_links",
       "build_scenario_forecast">>,
     <<"update_opex_item", "save_campaign_opex_links",
       "build_scenario_forecast">>,
     <<"delete_opex_item", "save_campaign_opex_links",
       "build_scenario_forecast">>}

OpexOverride(n, cost) ==
    [scenario_id |-> ScenarioIdOf(1), opex_item_id |-> OpexId(n),
     cost_override |-> cost]

\* no override row; a row of item 1 with the cost unset, 0 or 700; a row of
\* item 3
OpexOverrideLists ==
    {<<>>} \cup {<<OpexOverride(1, c)>> : c \in OverrideValues(700)}
    \cup {<<OpexOverride(3, Some(RInt(900)))>>}

ScenarioOpexInput(in, ids) ==
    [scenario |-> in, opex_ids |-> ids]

\* every window, kind and override of item 1, read through a link table
\* that names item 1, items 1 and 2, or is missing; with and without
\* quantities
OpexCostInputs ==
    {ScenarioOpexInput(
        ScenarioInput(<<Product1, Product2>>, CampaignRow(span, "Uniform"),
            OpexDb(qs, Library(LibraryItem(1, st, en, ot)),
                   AppLinks(<<>>), engine),
            <<>>, soo, None, None),
        <<OpexId(1)>>) :
        qs \in {<<>>, BothAt100},
        span \in CampaignSpans, st \in OptionalLabels, en \in OptionalLabels,
        ot \in BOOLEAN, soo \in OpexOverrideLists,
        engine \in {None, Some(EngineLinks(<<1>>)), Some(EngineLinks(<<1, 2>>))}}

\* the store as the repository's own code fills it: every selection saved
\* for the campaign, over any earlier selection, with and without
\* quantities
OpexLinkInputs ==
    {ScenarioOpexInput(
        ScenarioInput(<<Product1, Product2>>, CampaignRow(span, "Uniform"),
            OpexDb(qs, Library(LibraryItem(1, Some(WindowLabel(0)), None, ot)),
                   AppLinks(app), None),
            <<>>, soo, None, None),
        ids) :
        qs \in {<<>>, BothAt100}, span \in CampaignSpans, ot \in BOOLEAN,
        app \in {<<>>, <<1>>, <<1, 2>>},
        soo \in {<<>>, <<OpexOverride(1, Some(RInt(700)))>>},
        ids \in {<<>>, <<OpexId(1)>>, <<OpexId(1), OpexId(2)>>}}

\* a library of two items with a start month: item 1 of any kind and
\* window, item 2 of either kind, starting the month before the window or
\* in its first month and open-ended
StartLabels == {Some(l) : l \in OpexLabels}
SecondItems ==
    {LibraryItem(2, Some(WindowLabel(k)), None, ot) :
        k \in {-1, 0}, ot \in BOOLEAN}

\* campaigns whose linked items the engine reads from campaign_opex_links:
\* item 1, items 1 and 2, or none; no scenario override
LinkedOpexInputs ==
    {ScenarioInput(<<Product1, Product2>>, CampaignRow(span, "Uniform"),
        OpexDb(BothAt100, <<LibraryItem(1, st, en, ot), item2>>,
               AppLinks(ns), Some(EngineLinks(ns))),
        <<>>, <<>>, None, None) :
        span \in CampaignSpans, st \in StartLabels, en \in OptionalLabels,
        ot \in BOOLEAN, item2 \in SecondItems,
        ns \in {<<>>, <<1>>, <<1, 2>>}}

-----------------------------------------------------------------------------
(* Input domains of the scenario store *)

EmptyStore ==
    [scenarios |-> <<>>, scenario_products |-> <<>>, scenario_opex |-> <<>>,
     scenario_fx |-> <<>>, scenario_campaign_links |-> <<>>]

\* the ids the store has generated, and one it never generates
GeneratedIds == {ScenarioIdOf(n) : n \in 1..MaxScenarios}
MissingId == ScenarioIdOf(0)

\* the override rows a page saves: none, or one row
SavedProductRows == {<<>>, <<QtyOverride(Pid1, Some(RInt(50)))>>}
SavedOpexRows == {<<>>, <<OpexOverride(1, Some(RInt(700)))>>}

\* the FX rows a page saves: none, or the rows of USD and GBP
FxRow(ccy, rate) == [currency |-> ccy, rate |-> RInt(rate)]
SavedFxRows == {<<>>, <<FxRow("USD", 120), FxRow("GBP", 150)>>}

\* the columns update_scenario rewrites: the name, or the base campaign
UpdatedFields == {[name |-> "Best"], [base_campaign_id |-> Some("c2")]}

\* the campaigns a scenario is linked to
LinkedCampaigns == {"c1", "c2"}

-----------------------------------------------------------------------------
(* Input domains of the campaign store *)

\* the campaigns of the store
Campaigns == {"c1", "c2"}

\* the tables save_campaign_products and the weight saves write, empty
EmptyCampaignStore ==
    [campaign_quantities |-> <<>>, campaign_month_weights |-> <<>>,
     campaign_size_breakdown |-> <<>>]

\* the quantities the forecast page saves: no product, one product, and
\* two products of which one or none has quantity 0
SavedQuantities ==
    {<<>>,
     << <<Pid1, RInt(100)>> >>,
     << <<Pid1, RInt(50)>>, <<Pid2, RInt(0)>> >>,
     << <<Pid1, RInt(0)>>, <<Pid2, RInt(70)>> >>,
     << <<Pid1, RInt(100)>>, <<Pid2, RInt(70)>> >>}

\* the legacy weights saved for a campaign: none, 3 : 1 on the first two
\* window months, 4 on the first alone
SavedLegacyWeights ==
    {<<>>,
     << <<WindowLabel(0), 3>>, <<WindowLabel(1), 1>> >>,
     << <<WindowLabel(0), 4>> >>}

\* the per-product weights saved for a campaign: no product, p1 with two
\* months, p1 with one month, p2, and both products
SavedProductWeights ==
    {<<>>,
     << <<Pid1, << <<WindowLabel(0), 10>>, <<WindowLabel(1), 90>> >> >> >>,
     << <<Pid1, << <<WindowLabel(1), 100>> >> >> >>,
     << <<Pid2, << <<WindowLabel(0), 0>>, <<WindowLabel(1), 100>> >> >> >>,
     << <<Pid1, << <<WindowLabel(0), 50>>, <<WindowLabel(1), 50>> >> >>,
        <<Pid2, << <<WindowLabel(0), 100>>, <<WindowLabel(1), 0>> >> >> >>}

\* the six number inputs of a product's size breakdown, S and M filled
SizeInputsOf(s, m) ==
    << <<"XS", RInt(0)>>, <<"S", RInt(s)>>, <<"M", RInt(m)>>,
       <<"L", RInt(0)>>, <<"XL", RInt(0)>>, <<"XXL", RInt(0)>> >>

\* the size breakdowns the forecast page saves: no product, p1 with 30 + 70,
\* p1 with every size 0, and both products
SavedSizeBreakdowns ==
    {<<>>,
     << <<Pid1, SizeInputsOf(30, 70)>> >>,
     << <<Pid1, SizeInputsOf(0, 0)>> >>,
     << <<Pid1, SizeInputsOf(50, 0)>>, <<Pid2, SizeInputsOf(0, 70)>> >>}

\* what one run of the forecast page's input tab saves: the quantity of
\* every selected product, in Custom mode the monthly percentages of every
\* selected product, and with the size breakdown enabled its sizes
PageSave(qs, wbp, sb) ==
    [quantities |-> qs, product_month_weights |-> wbp, size_breakdown |-> sb]

ForecastPageSaves ==
    {PageSave(<<>>, None, None),
     PageSave(<<>>, Some(<<>>), Some(<<>>)),
     PageSave(<< <<Pid1, RInt(100)>> >>, None, None),
     PageSave(<< <<Pid1, RInt(100)>> >>,
              Some(<< <<Pid1, << <<WindowLabel(0), 10>>,
                                 <<WindowLabel(1), 90>> >> >> >>),
              Some(<< <<Pid1, SizeInputsOf(30, 70)>> >>)),
     PageSave(<< <<Pid1, RInt(50)>>, <<Pid2, RInt(0)>> >>,
              Some(<< <<Pid1, << <<WindowLabel(0), 50>>,
                                 <<WindowLabel(1), 50>> >> >>,
                      <<Pid2, << <<WindowLabel(0), 100>>,
                                 <<WindowLabel(1), 0>> >> >> >>),
              None),
     PageSave(<< <<Pid1, RInt(0)>>, <<Pid2, RInt(70)>> >>, None,
              Some(<< <<Pid1, SizeInputsOf(0, 0)>>,
                      <<Pid2, SizeInputsOf(0, 70)>> >>))}

\* what the other session saves during a forecast: 60 units of p1, its
\* months at 10 : 90 and its sizes 20 + 40
SharedPageSave ==
    PageSave(<< <<Pid1, RInt(60)>> >>,
             Some(<< <<Pid1, << <<WindowLabel(0), 10>>,
                                <<WindowLabel(1), 90>> >> >> >>),
             Some(<< <<Pid1, SizeInputsOf(20, 40)>> >>))

\* the store after the legacy weights 2 : 2 and the weights 30 : 70 of p1
\* were saved for campaign c2
OtherCampaignWeights ==
    InsertWithIds(
        InsertWithIds(EmptyCampaignStore, "campaign_month_weights",
            WeightPayload("c2", None,
                << <<WindowLabel(0), 2>>, <<WindowLabel(1), 2>> >>)),
        "campaign_month_weights",
        WeightPayload("c2", Some(Pid1),
            << <<WindowLabel(0), 30>>, <<WindowLabel(1), 70>> >>))

-----------------------------------------------------------------------------
(* Input domains of the validation *)

Absent == [tag |-> "absent"]

\* the texts of the dicts, as character codes
Text_Thobe == <<84, 104, 111, 98, 101>>
Text_Apparel == <<65, 112, 112, 97, 114, 101, 108>>
Text_abc == <<97, 98, 99>>
Text_minus5 == <<45, 53>>
Text_2000 == <<50, 48, 48, 48>>
Text_1point5 == <<49, 46, 53>>
Text_5em1 == <<32, 53, 101, 45, 49, 32>>
Text_nan == <<110, 97, 110>>
Text_fs5 == <<28, 53>>
Text_nbsp5 == <<160, 53>>
Text_arabic_0point5 == <<1632, 46, 1637>>
Text_just_above_1 ==
    <<49, 46, 48, 48, 48, 48, 48, 48, 48, 48, 48, 48, 48, 48, 48, 48, 48,
      48, 48, 48, 49>>

\* the values of each key of a product dict; Absent stands for a dict
\* without the key.  Numbers are the numbers of the product form and
\* numbers it cannot produce (negative, rates above 1); the texts are "",
\* texts float() reads ("2000", "-5", "1.5", " 5e-1 ", "nan", a no-break
\* space before "5", the Arabic-Indic digits of 0.5, and
\* "1.0000000000000000001", which reads as 1.0) and texts it does not
\* ("abc", and "5" after the control character U+001C).
ProductChoices ==
    [name : {Absent, None, Str(<<>>), Str(Text_Thobe)},
     category : {Absent, Str(<<>>), Str(Text_Apparel)},
     price_bdt : {Absent, None, Str(<<>>), Num(RInt(0)), Num(RInt(2000)),
                  Num(RInt(-1)), Str(Text_2000), Str(Text_minus5),
                  Str(Text_abc), Str(Text_fs5), Str(Text_nbsp5)},
     manufacturing_cost_bdt : {None, Num(RInt(800)), Num(RInt(-5))},
     packaging_cost_bdt : {Absent, Num(RInt(100)), Num(RInt(-1))},
     shipping_cost_bdt : {Num(RInt(150))},
     marketing_cost_bdt : {None, Num(RInt(120))},
     return_rate : {Absent, Num(RInt(0)), Num(Rat(1, 20)), Num(RInt(1)),
                    Num(Rat(3, 2)), Num(Rat(-1, 10)), Str(Text_1point5),
                    Str(Text_nan), Str(Text_arabic_0point5),
                    Str(Text_just_above_1)},
     discount_rate : {Num(Rat(1, 10)), Num(Rat(11, 10)), Str(Text_5em1)}]

\* the dict of a choice of values: the keys whose value is not Absent
DictOfChoice(choice) ==
    [k \in {f \in DOMAIN choice : choice[f].tag # "absent"} |-> choice[k]]

ProductDicts == {DictOfChoice(choice) : choice \in ProductChoices}

-----------------------------------------------------------------------------
(* The calls *)

Calling(f) == pc # <<>> /\ Head(pc) = f
Return(f) == pc' = Tail(pc) /\ returned' = returned \cup {f}

\* months = month_range(start_date, end_date)
MonthRange ==
    /\ Calling("month_range")
    /\ months' = month_range(start_date, end_date)
    /\ Return("month_range")
    /\ UNCHANGED <<start_date, end_date, weight_vars, quantity_vars,
                   forecast_in, forecast_out, totals, opex_vars,
                   scenario_vars, store_vars, validation_vars>>

\* weights = build_distribution_weights(months, mode, custom_weights)
BuildDistributionWeights ==
    /\ Calling("build_distribution_weights")
    /\ weights' = build_distribution_weights(months, mode, custom_weights)
    /\ Return("build_distribution_weights")
    /\ UNCHANGED <<calendar_vars, mode, custom_weights, quantity_vars,
                   forecast_in, forecast_out, totals, opex_vars,
                   scenario_vars, store_vars, validation_vars>>

\* month_qtys = distribute_quantity(total_qty, weights)
DistributeQuantity ==
    /\ Calling("distribute_quantity")
    /\ month_qtys' = distribute_quantity(total_qty, weights)
    /\ Return("distribute_quantity")
    /\ UNCHANGED <<calendar_vars, weight_vars, total_qty,
                   forecast_in, forecast_out, totals, opex_vars,
                   scenario_vars, store_vars, validation_vars>>

\* monthly_df, product_summary_df, size_df = build_campaign_forecast(...)
BuildCampaignForecast ==
    /\ Calling("build_campaign_forecast")
    /\ LET ms == month_range(start_date, end_date)
           base_weights == build_distribution_weights(ms, mode, custom_weights)
           items == ForecastItems(products, quantities)
           pw == [pid \in Keys(items) |->
                    WeightsForPid(pid, mode, per_product_month_weights, ms,
                                  base_weights)]
           monthly_rows == MonthlyRows(products, items, pw, ms)
       IN  /\ months' = ms
           /\ weights' = base_weights
           /\ pid_weights' = pw
           /\ monthly_df' = monthly_rows
           /\ product_summary_df' = ProductSummary(monthly_rows)
           /\ size_df' = SizeRows(products, items, size_breakdown)
    /\ Return("build_campaign_forecast")
    /\ UNCHANGED <<start_date, end_date, mode, custom_weights, quantity_vars,
                   forecast_in, totals, opex_vars,
                   scenario_vars, store_vars, validation_vars>>

\* totals = campaign_totals(monthly_df)
CampaignTotals ==
    /\ Calling("campaign_totals")
    /\ totals' = Some(campaign_totals(monthly_df))
    /\ Return("campaign_totals")
    /\ UNCHANGED <<calendar_vars, weight_vars, quantity_vars, forecast_in,
                   forecast_out, opex_vars,
                   scenario_vars, store_vars, validation_vars>>

\* opex_df = expand_opex_for_campaign(start_date, end_date, opex_items)
ExpandOpexForCampaign ==
    /\ Calling("expand_opex_for_campaign")
    /\ months' = month_range(start_date, end_date)
    /\ opex_df' = expand_opex_for_campaign(start_date, end_date, opex_items)
    /\ Return("expand_opex_for_campaign")
    /\ UNCHANGED <<start_date, end_date, weight_vars, quantity_vars,
                   forecast_in, forecast_out, totals, opex_items,
                   scenario_vars, store_vars, validation_vars>>

\* what build_scenario_forecast returns and the locals the claims read
engine_results == <<months, sp_map, quantities, weights, pid_weights,
                    size_rows, monthly_df, product_summary_df, lib_items,
                    totals>>

\* what a call of build_scenario_forecast leaves alone
engine_frame == <<start_date, end_date, mode, custom_weights, quantity_vars,
                  products, per_product_month_weights, size_breakdown,
                  size_df, opex_vars, scenario_in, db, opex_ids,
                  saved_campaign_id, saved, scenario_id, new_name, new_s,
                  id_seq, running, validation_vars>>

\* the exception of a request that the store does not answer
RequestError == "request failed"

\* lines 227-407 on the responses got: the overrides, the weights, the
\* monthly, size and summary rows, the OPEX total and the totals returned
ScenarioForecastOf(got) ==
    LET distribution_mode ==
            EffectiveMode(distribution_mode_override, campaign)
        ms == month_range(FromIsoFormat(campaign.start_date),
                          FromIsoFormat(campaign.end_date))
        base_quantities == QuantitiesOfRows(got.quantities, <<>>)
        base_weights == LegacyWeightsOfRows(got.month_weights)
        base_product_weights ==
            ProductWeightsOfRows(got.product_month_weights)
        base_sizes == SizesOfRows(got.sizes, <<>>)
        spm == apply_product_overrides(products, scenario_product_overrides)
        qs == apply_quantity_overrides(base_quantities,
                                       scenario_product_overrides)
        items == ScenarioItems(spm, qs)
        pw == [pid \in Keys(items) |->
                 ScenarioWeightsForPid(pid, distribution_mode,
                     custom_weights_override, base_product_weights,
                     base_weights, ms)]
        monthly_rows == ScenarioMonthlyRows(spm, items, pw, ms)
        opex_total == OpexTotal(got.library, scenario_opex_overrides, ms)
    IN  /\ months' = ms
        /\ sp_map' = spm
        /\ quantities' = qs
        /\ weights' = ScenarioBaseWeights(distribution_mode,
                          custom_weights_override, base_weights, ms)
        /\ pid_weights' = pw
        /\ size_rows' = ScenarioSizeRows(spm, items, base_sizes)
        /\ monthly_df' = monthly_rows
        /\ product_summary_df' = ProductSummary(monthly_rows)
        /\ lib_items' = got.library
        /\ totals' = Some(ScenarioTotals(monthly_rows, opex_total))

\* monthly_df, product_summary_df, totals = build_scenario_forecast(
\*     products, campaign, scenario_product_overrides,
\*     scenario_opex_overrides, distribution_mode_override,
\*     custom_weights_override)
\* One step is one request of the call.  A request that the store does not
\* answer raises out of the call, except inside _fetch_campaign_opex_items
\* (line 372), which catches it; the call returns with the step of its
\* last request.
BuildScenarioForecast ==
    /\ Calling("build_scenario_forecast")
    /\ \E answered \in BOOLEAN :
          LET r == IF responses.at = 0
                   THEN [NoResponses EXCEPT !.at = 215] ELSE responses
          IN  IF ~answered /\ r.at # 372
              THEN /\ responses' = [r EXCEPT !.at = 0]
                   /\ error' = Some(RequestError)
                   /\ pc' = Tail(pc)
                   /\ UNCHANGED <<returned, engine_results>>
              ELSE LET got == NextResponse(db, r, campaign.id, answered)
                   IN  /\ responses' = got
                       /\ UNCHANGED error
                       /\ IF got.at # 0
                          THEN UNCHANGED <<pc, returned, engine_results>>
                          ELSE /\ ScenarioForecastOf(got)
                               /\ Return("build_scenario_forecast")
    /\ UNCHANGED engine_frame

\* no function of the store modules is in progress
Idle == [fn |-> "", at |-> 0, args |-> <<>>, loc |-> <<>>]

\* the function in progress, or function fn entered with arguments args:
\* first is the line of its first request, loc what it holds between its
\* requests
Frame(fn, first, args, loc) ==
    IF running.at = 0
    THEN [fn |-> fn, at |-> first, args |-> args, loc |-> loc]
    ELSE running

\* the store answers the request of function r, which leaves the store
\* as out.db and the function before the request of line out.at
Answered(r, out) ==
    /\ db' = out.db
    /\ running' = [r EXCEPT !.at = out.at]
    /\ error' = None

\* the request raises: the exception ends the function, and what its
\* earlier requests wrote stays
Raised(r) ==
    /\ db' = db
    /\ running' = [r EXCEPT !.at = 0]
    /\ error' = Some(RequestError)

\* what an edit of the OPEX library leaves alone
library_call_vars ==
    <<calendar_vars, weight_vars, quantity_vars, forecast_in, forecast_out,
      totals, opex_vars, scenario_vars, opex_ids, saved_campaign_id, saved,
      scenario_id, new_name, new_s, id_seq, validation_vars>>

\* save_campaign_opex_links(campaign["id"], opex_ids), a request a step
SaveCampaignOpexLinks ==
    /\ Calling("save_campaign_opex_links")
    /\ LET r == Frame("save_campaign_opex_links", 78,
                      <<campaign.id, opex_ids>>, <<>>)
       IN  \E answered \in BOOLEAN :
              IF answered
              THEN LET out == save_campaign_opex_links(db, r.at, campaign.id,
                                                       opex_ids)
                   IN  /\ Answered(r, out)
                       /\ IF out.at = 0
                          THEN Return("save_campaign_opex_links")
                          ELSE UNCHANGED <<pc, returned>>
              ELSE /\ Raised(r)
                   /\ pc' = Tail(pc)
                   /\ UNCHANGED returned
    /\ UNCHANGED library_call_vars

\* the request of an edit of the library raises
LibraryRequestRaises ==
    /\ db' = db
    /\ error' = Some(RequestError)
    /\ pc' = Tail(pc)
    /\ UNCHANGED returned

\* insert_opex_item(payload)
InsertOpexItem ==
    /\ Calling("insert_opex_item")
    /\ \E answered \in BOOLEAN :
          IF answered
          THEN /\ \E data \in NewOpexItems :
                     db' = insert_opex_item(db, data, NewOpexId)
               /\ Return("insert_opex_item")
               /\ UNCHANGED error
          ELSE LibraryRequestRaises
    /\ UNCHANGED <<library_call_vars, running>>

\* update_opex_item(opex_id, fields)
UpdateOpexItem ==
    /\ Calling("update_opex_item")
    /\ \E answered \in BOOLEAN :
          IF answered
          THEN /\ \E id \in EditedOpexIds, fields \in UpdatedOpexFields :
                     LET done == update_opex_item(db, id, fields)
                     IN  /\ db' = done.db
                         /\ error' = done.error
               /\ Return("update_opex_item")
          ELSE LibraryRequestRaises
    /\ UNCHANGED <<library_call_vars, running>>

\* delete_opex_item(opex_id)
DeleteOpexItem ==
    /\ Calling("delete_opex_item")
    /\ \E answered \in BOOLEAN :
          IF answered
          THEN /\ \E id \in EditedOpexIds : db' = delete_opex_item(db, id)
               /\ Return("delete_opex_item")
               /\ UNCHANGED error
          ELSE LibraryRequestRaises
    /\ UNCHANGED <<library_call_vars, running>>

\* what a store call leaves alone
data_vars == <<pc, returned, calendar_vars, weight_vars, quantity_vars,
               forecast_in, forecast_out, totals, opex_vars, scenario_vars,
               opex_ids, validation_vars>>
engine_vars == <<data_vars, saved_campaign_id, saved>>

ExistingIds == {db["scenarios"][i].id : i \in DOMAIN db["scenarios"]}

\* the Create Scenario button (pages/4_Scenario_Planning.py, lines
\* 193-198): s = create_scenario("Plan", "", "c1") (the request of line
\* 36), then link_scenario_to_campaign(s["id"], "c1") (the requests of
\* lines 121 and 123)
CreateScenario ==
    LET r == Frame("Create Scenario", 36, <<"Plan", "", "c1">>, None)
    IN  /\ r.fn = "Create Scenario"
        /\ running.at = 0 => id_seq < MaxScenarios
        /\ \E answered \in BOOLEAN :
              IF ~answered
              THEN /\ Raised(r)
                   /\ new_s' = r.loc
                   /\ UNCHANGED id_seq
              ELSE IF r.at = 36
              THEN LET made == create_scenario(db, id_seq, "Plan", "",
                                               Some("c1"))
                   IN  /\ db' = made.db
                       /\ id_seq' = made.id_seq
                       /\ new_s' = Some(made.row)
                       /\ running' = [r EXCEPT !.at = 121,
                                               !.loc = Some(made.row)]
                       /\ error' = None
              ELSE /\ Answered(r, link_scenario_to_campaign(
                                      db, r.at, r.loc.val.id, "c1"))
                   /\ UNCHANGED <<new_s, id_seq>>
        /\ scenario_id' = <<>>
        /\ new_name' = "Plan"
        /\ UNCHANGED engine_vars

\* save_scenario_products(scenario_id, rows), a request a step
SaveScenarioProducts ==
    \E sid \in ExistingIds, rows \in SavedProductRows :
       LET r == Frame("save_scenario_products", 144, <<sid, rows>>, <<>>)
       IN  /\ r.fn = "save_scenario_products" /\ r.args = <<sid, rows>>
           /\ \E answered \in BOOLEAN :
                 IF answered
                 THEN Answered(r, save_scenario_products(db, r.at, sid, rows))
                 ELSE Raised(r)
           /\ scenario_id' = sid
           /\ new_name' = ""
           /\ new_s' = None
           /\ UNCHANGED <<engine_vars, id_seq>>

\* save_scenario_opex(scenario_id, rows), a request a step
SaveScenarioOpex ==
    \E sid \in ExistingIds, rows \in SavedOpexRows :
       LET r == Frame("save_scenario_opex", 176, <<sid, rows>>, <<>>)
       IN  /\ r.fn = "save_scenario_opex" /\ r.args = <<sid, rows>>
           /\ \E answered \in BOOLEAN :
                 IF answered
                 THEN Answered(r, save_scenario_opex(db, r.at, sid, rows))
                 ELSE Raised(r)
           /\ scenario_id' = sid
           /\ new_name' = ""
           /\ new_s' = None
           /\ UNCHANGED <<engine_vars, id_seq>>

\* save_scenario_fx(scenario_id, rows), a request a step
SaveScenarioFx ==
    \E sid \in ExistingIds, rows \in SavedFxRows :
       LET r == Frame("save_scenario_fx", 204, <<sid, rows>>, <<>>)
       IN  /\ r.fn = "save_scenario_fx" /\ r.args = <<sid, rows>>
           /\ \E answered \in BOOLEAN :
                 IF answered
                 THEN Answered(r, save_scenario_fx(db, r.at, sid, rows))
                 ELSE Raised(r)
           /\ scenario_id' = sid
           /\ new_name' = ""
           /\ new_s' = None
           /\ UNCHANGED <<engine_vars, id_seq>>

\* new_s = update_scenario(sid, fields), for a scenario of the store or for
\* an id the store does not hold: one request
UpdateScenarioOf(sid) ==
    /\ running.at = 0
    /\ \E answered \in BOOLEAN, fields \in UpdatedFields :
          LET r == Frame("update_scenario", 0, <<sid, fields>>, <<>>)
              out == update_scenario(db, sid, fields)
          IN  IF answered
              THEN /\ db' = out.db
                   /\ new_s' = out.new_s
                   /\ error' = out.error
                   /\ running' = r
              ELSE /\ Raised(r)
                   /\ new_s' = None
    /\ scenario_id' = sid
    /\ new_name' = ""
    /\ UNCHANGED <<engine_vars, id_seq>>

UpdateScenario == \E sid \in GeneratedIds \cup {MissingId} :
                     UpdateScenarioOf(sid)

\* link_scenario_to_campaign(sid, c), a request a step
LinkScenarioTo(sid, c) ==
    LET r == Frame("link_scenario_to_campaign", 121, <<sid, c>>, <<>>)
    IN  /\ r.fn = "link_scenario_to_campaign" /\ r.args = <<sid, c>>
        /\ \E answered \in BOOLEAN :
              IF answered
              THEN Answered(r, link_scenario_to_campaign(db, r.at, sid, c))
              ELSE Raised(r)
        /\ scenario_id' = sid
        /\ new_name' = ""
        /\ new_s' = None
        /\ UNCHANGED <<engine_vars, id_seq>>

\* the base campaign of a scenario is changed
LinkScenarioToCampaign ==
    \E sid \in ExistingIds, c \in LinkedCampaigns : LinkScenarioTo(sid, c)

\* new_s = duplicate_scenario(sid, "Copy"), for a scenario of the store or
\* for an id the store does not hold, a request a step
DuplicateScenarioOf(sid) ==
    LET r == Frame("duplicate_scenario", 60, <<sid, "Copy">>, NoCopy)
    IN  /\ r.fn = "duplicate_scenario" /\ r.args = <<sid, "Copy">>
        /\ (running.at = 0 /\ sid \in ExistingIds) => id_seq < MaxScenarios
        /\ \E answered \in BOOLEAN :
              IF answered
              THEN LET out == duplicate_scenario(db, id_seq, r.at, sid,
                                                 "Copy", r.loc)
                   IN  /\ db' = out.db
                       /\ id_seq' = out.id_seq
                       /\ new_s' = out.returns
                       /\ error' = out.error
                       /\ running' = [r EXCEPT !.at = out.at,
                                               !.loc = out.loc]
              ELSE /\ Raised(r)
                   /\ new_s' = None
                   /\ UNCHANGED id_seq
        /\ scenario_id' = sid
        /\ new_name' = "Copy"
        /\ UNCHANGED engine_vars

DuplicateScenario == \E sid \in GeneratedIds \cup {MissingId} :
                        DuplicateScenarioOf(sid)

\* delete_scenario(sid), for a scenario of the store or for an id the store
\* does not hold: one request
DeleteScenarioOf(sid) ==
    /\ running.at = 0
    /\ \E answered \in BOOLEAN, cascades \in BOOLEAN :
          LET r == Frame("delete_scenario", 0, <<sid>>, <<>>)
              out == delete_scenario(db, sid, cascades)
          IN  IF answered
              THEN /\ db' = out.db
                   /\ error' = out.error
                   /\ running' = r
              ELSE Raised(r)
    /\ scenario_id' = sid
    /\ new_name' = ""
    /\ new_s' = None
    /\ UNCHANGED <<engine_vars, id_seq>>

DeleteScenario == \E sid \in GeneratedIds \cup {MissingId} :
                     DeleteScenarioOf(sid)

\* what a save of campaign_db leaves alone
scenario_call_vars == <<scenario_id, new_name, new_s, id_seq>>

\* save_campaign_products(c, qs), a request a step
SaveCampaignProductsOf(c, qs) ==
    LET r == Frame("save_campaign_products", 96, <<c, qs>>, <<>>)
    IN  /\ r.fn = "save_campaign_products" /\ r.args = <<c, qs>>
        /\ saved_campaign_id' = c
        /\ saved' = <<"save_campaign_products", qs>>
        /\ \E answered \in BOOLEAN :
              IF answered
              THEN Answered(r, save_campaign_products(db, r.at, c, qs))
              ELSE Raised(r)
        /\ UNCHANGED <<data_vars, scenario_call_vars>>

SaveCampaignProducts ==
    \E c \in Campaigns, qs \in SavedQuantities : SaveCampaignProductsOf(c, qs)

\* save_month_weights(c, ws), a request a step; the function holds
\* legacy_ids between its requests
SaveMonthWeightsOf(c, ws) ==
    LET r == Frame("save_month_weights", 148, <<c, ws>>, <<>>)
    IN  /\ r.fn = "save_month_weights" /\ r.args = <<c, ws>>
        /\ saved_campaign_id' = c
        /\ saved' = <<"save_month_weights", ws>>
        /\ \E answered \in BOOLEAN :
              IF answered
              THEN LET out == save_month_weights(db, r.at, c, ws, r.loc)
                   IN  Answered([r EXCEPT !.loc = out.legacy_ids], out)
              ELSE Raised(r)
        /\ UNCHANGED <<data_vars, scenario_call_vars>>

SaveMonthWeights ==
    \E ws \in SavedLegacyWeights : SaveMonthWeightsOf("c1", ws)

\* save_product_month_weights(c, wbp), a request a step; with an empty
\* dict the function returns without a request
SaveProductMonthWeightsOf(c, wbp) ==
    LET r == Frame("save_product_month_weights",
                   IF wbp = <<>> THEN 0 ELSE 216, <<c, wbp>>, wbp)
    IN  /\ r.fn = "save_product_month_weights" /\ r.args = <<c, wbp>>
        /\ saved_campaign_id' = c
        /\ saved' = <<"save_product_month_weights", wbp>>
        /\ IF r.at = 0
           THEN /\ running' = r
                /\ error' = None
                /\ UNCHANGED db
           ELSE \E answered \in BOOLEAN :
                   IF answered
                   THEN LET out == save_product_month_weights(db, r.at, c,
                                                              r.loc)
                        IN  Answered([r EXCEPT !.loc = out.todo], out)
                   ELSE Raised(r)
        /\ UNCHANGED <<data_vars, scenario_call_vars>>

SaveProductMonthWeights ==
    \E wbp \in SavedProductWeights : SaveProductMonthWeightsOf("c1", wbp)

\* save_size_breakdown(c, sb), a request a step
SaveSizeBreakdownOf(c, sb) ==
    LET r == Frame("save_size_breakdown", 260, <<c, sb>>, <<>>)
    IN  /\ r.fn = "save_size_breakdown" /\ r.args = <<c, sb>>
        /\ saved_campaign_id' = c
        /\ saved' = <<"save_size_breakdown", sb>>
        /\ \E answered \in BOOLEAN :
              IF answered
              THEN Answered(r, save_size_breakdown(db, r.at, c, sb))
              ELSE Raised(r)
        /\ UNCHANGED <<data_vars, scenario_call_vars>>

SaveSizeBreakdown ==
    \E sb \in SavedSizeBreakdowns : SaveSizeBreakdownOf("c1", sb)

\* one run of the Save button of the forecast page on campaign c, a
\* request a step: save_campaign_products(c, quantities); when the mode is
\* Custom and product_month_weights is not empty,
\* save_product_month_weights; when the size breakdown is enabled,
\* save_size_breakdown.  A request that raises ends the run of the page.
SaveForecastInputsOf(c, given) ==
    LET r == Frame("save_forecast_inputs", 96, <<c, given>>, <<>>)
    IN  /\ r.fn = "save_forecast_inputs" /\ r.args = <<c, given>>
        /\ saved_campaign_id' = c
        /\ saved' = <<"forecast_inputs", given>>
        /\ \E answered \in BOOLEAN :
              IF answered
              THEN LET out == save_forecast_inputs(db, r.at, c, given, r.loc)
                   IN  Answered([r EXCEPT !.loc = out.todo], out)
              ELSE Raised(r)
        /\ UNCHANGED <<data_vars, scenario_call_vars>>

SaveForecastInputs ==
    \E given \in ForecastPageSaves : SaveForecastInputsOf("c1", given)

\* errors = validate_product_dict(d)
ValidateProductDict ==
    /\ Calling("validate_product_dict")
    /\ LET call == validate_product_dict(product_dict)
       IN  /\ errors' = IF IsNone(call.returns) THEN errors
                        ELSE call.returns.val
           /\ error' = call.raises
    /\ Return("validate_product_dict")
    /\ UNCHANGED <<calendar_vars, weight_vars, quantity_vars, forecast_in,
                   forecast_out, totals, opex_vars, scenario_vars, db,
                   opex_ids, saved_campaign_id, saved, scenario_id, new_name,
                   new_s, id_seq, running, product_dict>>

-----------------------------------------------------------------------------
(* Specifications *)

NoDate == [year |-> 1, month |-> 1, day |-> 1]

NoForecastResult ==
    /\ pid_weights = <<>>
    /\ monthly_df = <<>>
    /\ product_summary_df = <<>>
    /\ size_df = <<>>
    /\ totals = None

NoForecast ==
    /\ products = <<>>
    /\ quantities = <<>>
    /\ per_product_month_weights = None
    /\ size_breakdown = None
    /\ NoForecastResult

NoOpex ==
    /\ opex_items = <<>>
    /\ opex_df = <<>>

NoCampaign == [id |-> "", start_date |-> <<>>, end_date |-> <<>>,
               distribution_mode |-> "Uniform"]

NoScenarioResult ==
    /\ sp_map = <<>>
    /\ size_rows = <<>>
    /\ lib_items = <<>>
    /\ responses = NoResponses

NoScenario ==
    /\ campaign = NoCampaign
    /\ scenario_product_overrides = <<>>
    /\ scenario_opex_overrides = <<>>
    /\ distribution_mode_override = None
    /\ custom_weights_override = None
    /\ NoScenarioResult

\* validate_product_dict was not called
NoValidation ==
    /\ product_dict = <<>>
    /\ errors = <<>>

NoStoreCall ==
    /\ opex_ids = <<>>
    /\ saved_campaign_id = ""
    /\ saved = <<>>
    /\ scenario_id = <<>>
    /\ new_name = ""
    /\ new_s = None
    /\ error = None
    /\ id_seq = 0
    /\ running = Idle

NoStore ==
    /\ db = <<>>
    /\ NoStoreCall

\* month_range on any two dates
InitCalendar ==
    /\ pc = <<"month_range">>
    /\ returned = {}
    /\ start_date \in CalendarDates
    /\ end_date \in CalendarDates
    /\ months = <<>>
    /\ mode = "Uniform"
    /\ custom_weights = None
    /\ weights = <<>>
    /\ total_qty = RZero
    /\ month_qtys = <<>>
    /\ NoForecast
    /\ NoOpex
    /\ NoScenario
    /\ NoStore
    /\ NoValidation

NextCalendar == MonthRange

SpecCalendar == InitCalendar /\ [][NextCalendar]_vars

\* build_distribution_weights, then distribute_quantity on its result,
\* for any month list, mode, custom map and total
InitWeights ==
    /\ pc = <<"build_distribution_weights", "distribute_quantity">>
    /\ returned = {}
    /\ start_date = NoDate
    /\ end_date = NoDate
    /\ months \in MonthLists
    /\ mode \in Modes
    /\ custom_weights \in CustomMaps
    /\ weights = <<>>
    /\ total_qty \in QtyValues
    /\ month_qtys = <<>>
    /\ NoForecast
    /\ NoOpex
    /\ NoScenario
    /\ NoStore
    /\ NoValidation

NextWeights == BuildDistributionWeights \/ DistributeQuantity

SpecWeights == InitWeights /\ [][NextWeights]_vars

\* build_campaign_forecast, then campaign_totals on its monthly table,
\* as the forecast pages call them
InitForecast ==
    /\ pc = <<"build_campaign_forecast", "campaign_totals">>
    /\ returned = {}
    /\ \E span \in CampaignSpans : start_date = span[1] /\ end_date = span[2]
    /\ months = <<>>
    /\ mode \in Modes
    /\ custom_weights \in ForecastCustomMaps
    /\ weights = <<>>
    /\ total_qty = RZero
    /\ month_qtys = <<>>
    /\ products \in Catalogues
    /\ quantities \in QuantityDicts
    /\ per_product_month_weights \in PerProductMaps
    /\ size_breakdown \in SizeBreakdowns
    /\ NoForecastResult
    /\ NoOpex
    /\ NoScenario
    /\ NoStore
    /\ NoValidation

NextForecast == BuildCampaignForecast \/ CampaignTotals

SpecForecast == InitForecast /\ [][NextForecast]_vars

\* expand_opex_for_campaign on a campaign and up to two OPEX items
InitOpex ==
    /\ pc = <<"expand_opex_for_campaign">>
    /\ returned = {}
    /\ \E span \in CampaignSpans : start_date = span[1] /\ end_date = span[2]
    /\ months = <<>>
    /\ mode = "Uniform"
    /\ custom_weights = None
    /\ weights = <<>>
    /\ total_qty = RZero
    /\ month_qtys = <<>>
    /\ NoForecast
    /\ opex_items \in OpexItemLists
    /\ opex_df = <<>>
    /\ NoScenario
    /\ NoStore
    /\ NoValidation

NextOpex == ExpandOpexForCampaign

SpecOpex == InitOpex /\ [][NextOpex]_vars

\* build_scenario_forecast is called on one of the inputs
ScenarioCall(inputs) ==
    /\ pc = <<"build_scenario_forecast">>
    /\ returned = {}
    /\ start_date = NoDate
    /\ end_date = NoDate
    /\ months = <<>>
    /\ mode = "Uniform"
    /\ custom_weights = None
    /\ weights = <<>>
    /\ total_qty = RZero
    /\ month_qtys = <<>>
    /\ quantities = <<>>
    /\ per_product_month_weights = None
    /\ size_breakdown = None
    /\ NoForecastResult
    /\ NoOpex
    /\ \E in \in inputs :
          /\ products = in.products
          /\ campaign = in.campaign
          /\ db = in.db
          /\ scenario_product_overrides = in.scenario_product_overrides
          /\ scenario_opex_overrides = in.scenario_opex_overrides
          /\ distribution_mode_override = in.distribution_mode_override
          /\ custom_weights_override = in.custom_weights_override
    /\ NoScenarioResult
    /\ NoStoreCall
    /\ NoValidation

\* build_scenario_forecast as the scenario page calls it, on a store that
\* holds the campaign's quantities, weights and sizes
InitScenario == ScenarioCall(ScenarioInputs)

NextScenario == BuildScenarioForecast

SpecScenario == InitScenario /\ [][NextScenario]_vars

\* the product summary of either builder: build_campaign_forecast as the
\* forecast pages call it, or build_scenario_forecast on a scenario with
\* price, discount, return-rate and cost overrides
InitMargins == InitForecast \/ ScenarioCall(OverrideInputs)

NextMargins ==
    BuildCampaignForecast \/ CampaignTotals \/ BuildScenarioForecast

SpecMargins == InitMargins /\ [][NextMargins]_vars

\* the same call while another session runs the Save button of the
\* forecast page on the base campaign once: the requests of the save and
\* those of the forecast reach the store in any order
InitSharedStore == ScenarioCall(SharedInputs)

SaveWhileForecasting ==
    /\ pc # <<>>
    /\ saved = <<>> \/ running.at # 0
    /\ SaveForecastInputsOf(campaign.id, SharedPageSave)

NextSharedStore == BuildScenarioForecast \/ SaveWhileForecasting

SpecSharedStore == InitSharedStore /\ [][NextSharedStore]_vars

ScenarioOpexCall(inputs, scripts) ==
    /\ pc \in scripts
    /\ returned = {}
    /\ start_date = NoDate
    /\ end_date = NoDate
    /\ months = <<>>
    /\ mode = "Uniform"
    /\ custom_weights = None
    /\ weights = <<>>
    /\ total_qty = RZero
    /\ month_qtys = <<>>
    /\ quantities = <<>>
    /\ per_product_month_weights = None
    /\ size_breakdown = None
    /\ NoForecastResult
    /\ NoOpex
    /\ \E in \in inputs :
          /\ products = in.scenario.products
          /\ campaign = in.scenario.campaign
          /\ db = in.scenario.db
          /\ scenario_product_overrides = in.scenario.scenario_product_overrides
          /\ scenario_opex_overrides = in.scenario.scenario_opex_overrides
          /\ distribution_mode_override = in.scenario.distribution_mode_override
          /\ custom_weights_override = in.scenario.custom_weights_override
          /\ opex_ids = in.opex_ids
    /\ NoScenarioResult
    /\ saved_campaign_id = ""
    /\ saved = <<>>
    /\ scenario_id = <<>>
    /\ new_name = ""
    /\ new_s = None
    /\ error = None
    /\ id_seq = 0
    /\ running = Idle
    /\ NoValidation

\* the OPEX page saves the items attached to the campaign, then the
\* scenario page forecasts a scenario based on the campaign; the store may
\* hold a link table that the engine can read
InitScenarioOpex == ScenarioOpexCall(OpexCostInputs, {SavedThenForecast})

NextScenarioOpex == SaveCampaignOpexLinks \/ BuildScenarioForecast

SpecScenarioOpex == InitScenarioOpex /\ [][NextScenarioOpex]_vars

\* the same two calls on a store that holds the tables of the repository
\* only
InitOpexLinks == ScenarioOpexCall(OpexLinkInputs, OpexScripts)

NextOpexLinks ==
    \/ InsertOpexItem \/ UpdateOpexItem \/ DeleteOpexItem
    \/ SaveCampaignOpexLinks \/ BuildScenarioForecast

SpecOpexLinks == InitOpexLinks /\ [][NextOpexLinks]_vars

\* the scenario pages working on a store that starts without scenarios
InitStore ==
    /\ pc = <<>>
    /\ returned = {}
    /\ start_date = NoDate
    /\ end_date = NoDate
    /\ months = <<>>
    /\ mode = "Uniform"
    /\ custom_weights = None
    /\ weights = <<>>
    /\ total_qty = RZero
    /\ month_qtys = <<>>
    /\ NoForecast
    /\ NoOpex
    /\ NoScenario
    /\ db = EmptyStore
    /\ NoStoreCall
    /\ NoValidation

NextStore ==
    \/ CreateScenario
    \/ SaveScenarioProducts
    \/ SaveScenarioFx
    \/ UpdateScenario
    \/ DuplicateScenario

SpecStore == InitStore /\ [][NextStore]_vars

\* the scenarios of a store that starts without scenarios, created, linked,
\* given OPEX overrides, duplicated and deleted
InitScenarioLinks == InitStore

NextScenarioLinks ==
    \/ CreateScenario
    \/ LinkScenarioToCampaign
    \/ SaveScenarioOpex
    \/ DuplicateScenario
    \/ DeleteScenario

SpecScenarioLinks == InitScenarioLinks /\ [][NextScenarioLinks]_vars

\* no call of the calendar, the forecast, the OPEX expansion or the scenario
\* engine
NoEngineCall ==
    /\ pc = <<>>
    /\ returned = {}
    /\ start_date = NoDate
    /\ end_date = NoDate
    /\ months = <<>>
    /\ mode = "Uniform"
    /\ custom_weights = None
    /\ weights = <<>>
    /\ total_qty = RZero
    /\ month_qtys = <<>>
    /\ NoForecast
    /\ NoOpex
    /\ NoScenario

\* the forecast page saving the quantities, percentages and sizes of the
\* campaigns of a store that starts without rows
InitQuantities ==
    /\ NoEngineCall
    /\ db = EmptyCampaignStore
    /\ NoStoreCall
    /\ NoValidation

NextQuantities ==
    SaveCampaignProducts \/ SaveSizeBreakdown \/ SaveForecastInputs

SpecQuantities == InitQuantities /\ [][NextQuantities]_vars

\* the legacy and the per-product weights of campaign c1 saved in any order
\* on a store that holds the weights of campaign c2
InitMonthWeights ==
    /\ NoEngineCall
    /\ db = OtherCampaignWeights
    /\ NoStoreCall
    /\ NoValidation

NextMonthWeights == SaveMonthWeights \/ SaveProductMonthWeights

SpecMonthWeights == InitMonthWeights /\ [][NextMonthWeights]_vars

\* validate_product_dict on any product dict
InitValidation ==
    /\ pc = <<"validate_product_dict">>
    /\ returned = {}
    /\ start_date = NoDate
    /\ end_date = NoDate
    /\ months = <<>>
    /\ mode = "Uniform"
    /\ custom_weights = None
    /\ weights = <<>>
    /\ total_qty = RZero
    /\ month_qtys = <<>>
    /\ NoForecast
    /\ NoOpex
    /\ NoScenario
    /\ NoStore
    /\ product_dict \in ProductDicts
    /\ errors = <<>>

NextValidation == ValidateProductDict

SpecValidation == InitValidation /\ [][NextValidation]_vars

\* build_campaign_forecast on what the store holds of a campaign, then
\* build_scenario_forecast on the same campaign without overrides
InitBaseScenario ==
    /\ pc = <<"build_campaign_forecast", "build_scenario_forecast">>
    /\ returned = {}
    /\ \E in \in BaseInputs :
          /\ products = in.products
          /\ campaign = in.campaign
          /\ db = in.db
          /\ scenario_product_overrides = in.scenario_product_overrides
          /\ scenario_opex_overrides = in.scenario_opex_overrides
          /\ distribution_mode_override = in.distribution_mode_override
          /\ custom_weights_override = in.custom_weights_override
    /\ start_date = FromIsoFormat(campaign.start_date)
    /\ end_date = FromIsoFormat(campaign.end_date)
    /\ months = <<>>
    /\ mode = campaign.distribution_mode
    /\ custom_weights = Some(fetch_month_weights(db, campaign.id))
    /\ weights = <<>>
    /\ total_qty = RZero
    /\ month_qtys = <<>>
    /\ quantities = fetch_campaign_products(db, campaign.id)
    /\ per_product_month_weights =
          Some(fetch_product_month_weights(db, campaign.id))
    /\ size_breakdown = None
    /\ NoForecastResult
    /\ NoOpex
    /\ NoScenarioResult
    /\ NoStoreCall
    /\ NoValidation

NextBaseScenario == BuildCampaignForecast \/ BuildScenarioForecast

SpecBaseScenario == InitBaseScenario /\ [][NextBaseScenario]_vars

\* the items linked to a campaign, as the scenario engine reads them
LinkedLibraryRows(d, campaign_id) ==
    LET attached == fetch_campaign_opex_items(d, campaign_id)
    IN  fetch_opex_library_by_ids(d,
            [i \in DOMAIN attached |-> attached[i].opex_item_id])

\* expand_opex_for_campaign on the campaign's range and linked items, then
\* build_scenario_forecast on the same campaign without overrides
InitLinkedOpex ==
    /\ pc = <<"expand_opex_for_campaign", "build_scenario_forecast">>
    /\ returned = {}
    /\ \E in \in LinkedOpexInputs :
          /\ products = in.products
          /\ campaign = in.campaign
          /\ db = in.db
          /\ scenario_product_overrides = in.scenario_product_overrides
          /\ scenario_opex_overrides = in.scenario_opex_overrides
          /\ distribution_mode_override = in.distribution_mode_override
          /\ custom_weights_override = in.custom_weights_override
    /\ start_date = FromIsoFormat(campaign.start_date)
    /\ end_date = FromIsoFormat(campaign.end_date)
    /\ months = <<>>
    /\ mode = "Uniform"
    /\ custom_weights = None
    /\ weights = <<>>
    /\ total_qty = RZero
    /\ month_qtys = <<>>
    /\ quantities = <<>>
    /\ per_product_month_weights = None
    /\ size_breakdown = None
    /\ NoForecastResult
    /\ opex_items = rows_to_opex_items(LinkedLibraryRows(db, campaign.id))
    /\ opex_df = <<>>
    /\ NoScenarioResult
    /\ NoStoreCall
    /\ NoValidation

NextLinkedOpex == ExpandOpexForCampaign \/ BuildScenarioForecast

SpecLinkedOpex == InitLinkedOpex /\ [][NextLinkedOpex]_vars

Init ==
    \/ InitCalendar \/ InitWeights \/ InitForecast \/ InitOpex
    \/ InitScenario \/ InitMargins \/ InitSharedStore
    \/ InitScenarioOpex \/ InitOpexLinks \/ InitStore
    \/ InitQuantities \/ InitMonthWeights \/ InitValidation
    \/ InitBaseScenario \/ InitLinkedOpex

Next ==
    \/ MonthRange
    \/ BuildDistributionWeights
    \/ DistributeQuantity
    \/ BuildCampaignForecast
    \/ CampaignTotals
    \/ ExpandOpexForCampaign
    \/ BuildScenarioForecast
    \/ InsertOpexItem
    \/ UpdateOpexItem
    \/ DeleteOpexItem
    \/ SaveCampaignOpexLinks
    \/ CreateScenario
    \/ SaveScenarioProducts
    \/ SaveScenarioOpex
    \/ SaveScenarioFx
    \/ UpdateScenario
    \/ LinkScenarioToCampaign
    \/ DuplicateScenario
    \/ DeleteScenario
    \/ SaveCampaignProducts
    \/ SaveMonthWeights
    \/ SaveProductMonthWeights
    \/ SaveSizeBreakdown
    \/ SaveForecastInputs
    \/ SaveWhileForecasting
    \/ ValidateProductDict

Spec == Init /\ [][Next]_vars

-----------------------------------------------------------------------------
(* Claims about the calendar and distribution utility *)

NonNegative(r) == r[1] >= 0

\* C1: build_distribution_weights returns a map whose keys are exactly the
\* given months and whose values are non-negative and sum to 1, for every
\* mode and every custom map; for an empty list of months it returns the
\* empty map.
WeightsSumToOne ==
    "build_distribution_weights" \in returned =>
        /\ DOMAIN weights = Range(months)
        /\ \A m \in DOMAIN weights : NonNegative(weights[m])
        /\ months # <<>> => RSum(ValuesOf(weights, months)) = ROne
        /\ months = <<>> => DOMAIN weights = {}

\* a Custom call whose map has a negative value for a campaign month and a
\* key outside the campaign months
WeightsSumToOneWitness ==
    /\ "build_distribution_weights" \in returned
    /\ mode = "Custom"
    /\ Len(months) = 2
    /\ ~IsNone(custom_weights)
    /\ \E m \in Range(months) :
          m \in DOMAIN custom_weights.val /\ custom_weights.val[m] < 0
    /\ \E k \in DOMAIN custom_weights.val : k \notin Range(months)
    /\ \E m \in Range(months) : weights[m] = ROne

IntMax(a, b) == IF a < b THEN b ELSE a

\* the raw weight of the i-th month as the specification states it
RefRaw(ms, i, md, cw) ==
    LET n == Len(ms)
    IN  CASE md = "Uniform" -> 1
          [] md = "Front-loaded" -> n - i + 1
          [] md = "Back-loaded" -> i
          [] md = "Custom" ->
                IF IsNone(cw) THEN 0
                ELSE IF ms[i] \in DOMAIN cw.val
                     THEN IntMax(0, cw.val[ms[i]])
                     ELSE 0

RECURSIVE RefRawSum(_, _, _, _)
RefRawSum(ms, k, md, cw) ==
    IF k = 0 THEN 0 ELSE RefRaw(ms, k, md, cw) + RefRawSum(ms, k - 1, md, cw)

\* C2: the result is 'raw weights divided by their sum' with raw weight 1
\* (Uniform), n-i+1 (Front-loaded), i (Back-loaded), max(0, custom[month])
\* or 0 for a missing month (Custom); a missing, empty or all-zero Custom
\* map gives the Uniform result 1/n.
WeightsMatchReference ==
    ("build_distribution_weights" \in returned /\ months # <<>>
        /\ mode \in {"Uniform", "Front-loaded", "Back-loaded", "Custom"}) =>
        LET n == Len(months)
            total == RefRawSum(months, n, mode, custom_weights)
        IN  \A i \in 1..n :
                weights[months[i]] =
                    IF mode = "Custom" /\ total = 0
                    THEN Rat(1, n)
                    ELSE Rat(RefRaw(months, i, mode, custom_weights), total)

\* a Front-loaded call over three months: 3/6, 2/6, 1/6
WeightsMatchReferenceWitness ==
    /\ "build_distribution_weights" \in returned
    /\ mode = "Front-loaded"
    /\ Len(months) = 3
    /\ weights[months[1]] = <<1, 2>>
    /\ weights[months[3]] = <<1, 6>>

DistributeExact ==
    /\ DOMAIN month_qtys = Range(months)
    /\ \A m \in DOMAIN month_qtys :
          month_qtys[m] = RMul(total_qty, weights[m])

\* C3 as stated: one entry per month equal to total x weight, and the
\* entries sum to the total, for every weight map the utility produces.
DistributeSumsToTotal ==
    "distribute_quantity" \in returned =>
        /\ DistributeExact
        /\ RSum(ValuesOf(month_qtys, months)) = total_qty

\* C3 amended: one entry per month equal to total x weight, without
\* rounding; the entries sum to the total when the weight map is not
\* empty, and the result for the empty weight map is the empty map.
DistributeSumsToTotalNonEmpty ==
    "distribute_quantity" \in returned =>
        /\ DistributeExact
        /\ months # <<>> => RSum(ValuesOf(month_qtys, months)) = total_qty
        /\ months = <<>> => DOMAIN month_qtys = {}

\* 100 units over three Front-loaded months: 50, 100/3, 50/3
DistributeSumsToTotalWitness ==
    /\ "distribute_quantity" \in returned
    /\ total_qty = RInt(100)
    /\ mode = "Front-loaded"
    /\ Len(months) = 3
    /\ month_qtys[months[2]] = <<100, 3>>

EarlierDate(a, b) == IF DateLess(b, a) THEN b ELSE a
LaterDate(a, b) == IF DateLess(b, a) THEN a ELSE b

\* C4: month_range returns the strictly increasing, gap-free labels from the
\* month of the earlier date to the month of the later date inclusive, is
\* symmetric in its arguments, is never empty, and has length
\* 12 x (year difference) + (month difference) + 1.
MonthRangeContiguous ==
    "month_range" \in returned =>
        LET lo == EarlierDate(start_date, end_date)
            hi == LaterDate(start_date, end_date)
            n == 12 * (hi.year - lo.year) + (hi.month - lo.month) + 1
        IN  /\ Len(months) = n
            /\ n >= 1
            /\ months[1] = Label(lo.year, lo.month)
            /\ months[n] = Label(hi.year, hi.month)
            /\ \A i \in 1..n :
                  months[i] = Label(YM(MonthIndex(lo) + i - 1).year,
                                    YM(MonthIndex(lo) + i - 1).month)
            /\ \A i \in 1..(n - 1) : StrLess(months[i], months[i + 1])
            /\ months = month_range(end_date, start_date)

\* a call with end before start, in different years
MonthRangeContiguousWitness ==
    /\ "month_range" \in returned
    /\ DateLess(end_date, start_date)
    /\ end_date.year < start_date.year
    /\ end_date.month > start_date.month
    /\ Len(months) > 2

-----------------------------------------------------------------------------
(* Claims about the forecast builder *)

CatalogueIds == {products[i].id : i \in DOMAIN products}
KnownItems == {i \in DOMAIN quantities : quantities[i][1] \in CatalogueIds}
CatalogueProduct(pid) ==
    products[CHOOSE i \in DOMAIN products : products[i].id = pid]

HasOwnWeights(pid) ==
    /\ ~IsNone(per_product_month_weights)
    /\ pid \in DOMAIN per_product_month_weights.val

\* the weights the specification selects for a product
SelectedWeights(pid) ==
    IF mode = "Custom" /\ HasOwnWeights(pid)
    THEN build_distribution_weights(
            months, "Custom", Some(per_product_month_weights.val[pid]))
    ELSE build_distribution_weights(months, mode, custom_weights)

\* C5: a product's weights are built from its own per-product map if and
\* only if the mode is Custom and the per-product map contains the product;
\* in every other case the product uses the shared base_weights built from
\* the mode and the campaign-level custom weights.
WeightSelectionPolicy ==
    "build_campaign_forecast" \in returned =>
        /\ months = month_range(start_date, end_date)
        /\ weights = build_distribution_weights(months, mode, custom_weights)
        /\ DOMAIN pid_weights = {quantities[i][1] : i \in KnownItems}
        /\ \A i \in KnownItems :
              LET pid == quantities[i][1]
              IN  /\ pid_weights[pid] = SelectedWeights(pid)
                  /\ ~(mode = "Custom" /\ HasOwnWeights(pid))
                        => pid_weights[pid] = weights
                  /\ \A k \in DOMAIN monthly_df :
                        monthly_df[k].product_id = pid =>
                            monthly_df[k].qty =
                                RMul(quantities[i][2],
                                     SelectedWeights(pid)[monthly_df[k].month])

\* Custom mode, campaign-level weights 3 : 1, p1 with its own map 1 : 3 and
\* p2 without one
WeightSelectionPolicyWitness ==
    /\ "build_campaign_forecast" \in returned
    /\ mode = "Custom"
    /\ custom_weights = Some(LegacyWeights)
    /\ HasOwnWeights(Pid1) /\ ~HasOwnWeights(Pid2)
    /\ DOMAIN pid_weights = {Pid1, Pid2}
    /\ Len(months) = 2
    /\ pid_weights[Pid1][months[1]] = <<1, 4>>
    /\ pid_weights[Pid2][months[1]] = <<3, 4>>

\* C6: a product id of quantities that is not in the catalogue contributes
\* no monthly row and no size row, also when it has a size breakdown; when
\* no id of quantities is in the catalogue the three tables are empty and
\* campaign_totals returns the five totals, all 0.
UnknownProductsSkipped ==
    "build_campaign_forecast" \in returned =>
        /\ \A k \in DOMAIN monthly_df :
              monthly_df[k].product_id \in CatalogueIds
        /\ \A k \in DOMAIN size_df : size_df[k].product_id \in CatalogueIds
        /\ \A k \in DOMAIN product_summary_df :
              product_summary_df[k].product_id \in CatalogueIds
        /\ KnownItems = {} =>
              /\ monthly_df = <<>>
              /\ product_summary_df = <<>>
              /\ size_df = <<>>
              /\ "campaign_totals" \in returned =>
                    /\ DOMAIN totals.val =
                          {"campaign_qty", "gross_revenue",
                           "effective_revenue", "total_cost", "net_profit"}
                    /\ \A c \in DOMAIN totals.val : totals.val[c] = RZero

\* quantities names p1 and p2, only p1 is in the catalogue, and both have
\* a size breakdown
UnknownProductsSkippedWitness ==
    /\ "campaign_totals" \in returned
    /\ CatalogueIds = {Pid1}
    /\ Keys(quantities) = {Pid1, Pid2}
    /\ ~IsNone(size_breakdown)
    /\ Keys(size_breakdown.val) = {Pid1, Pid2}
    /\ Len(size_df) = 2
    /\ Len(monthly_df) = Len(months)

SummaryColumn(c) == IF c = "qty" THEN "campaign_qty" ELSE c
TotalsColumn(c) == IF c = "qty" THEN "campaign_qty" ELSE c
SummedColumns ==
    {"qty", "gross_revenue", "effective_revenue", "total_cost", "net_profit"}

\* C7: each of the five values of campaign_totals equals the sum of its
\* column over the monthly rows and the sum of the same column over the
\* product summary rows.
TotalsAreColumnSums ==
    "campaign_totals" \in returned =>
        \A c \in SummedColumns :
            /\ totals.val[TotalsColumn(c)] = ColumnSum(monthly_df, c)
            /\ totals.val[TotalsColumn(c)] =
                  ColumnSum(product_summary_df, SummaryColumn(c))

\* two products over three Front-loaded months
TotalsAreColumnSumsWitness ==
    /\ "campaign_totals" \in returned
    /\ mode = "Front-loaded"
    /\ Len(monthly_df) = 6
    /\ Len(product_summary_df) = 2
    /\ totals.val.campaign_qty = RInt(200)
    /\ totals.val.net_profit # ColumnSum(product_summary_df, "effective_revenue")

Percent(x) == RMul(x, RInt(100))

\* either builder has returned its product summary
SummaryReturned ==
    \/ "build_campaign_forecast" \in returned
    \/ "build_scenario_forecast" \in returned

\* C8 as stated: gross_margin% = (gross_revenue - total_cost)/gross_revenue
\* and net_margin% = net_profit/effective_revenue, and the margin is 0
\* whenever its denominator is 0.
MarginZeroOnZeroDenominator ==
    SummaryReturned =>
        \A k \in DOMAIN product_summary_df :
            LET r == product_summary_df[k]
            IN  /\ r.gross_margin_pct =
                      IF r.gross_revenue = RZero THEN RZero
                      ELSE Percent(RDiv(RSub(r.gross_revenue, r.total_cost),
                                        r.gross_revenue))
                /\ r.net_margin_pct =
                      IF r.effective_revenue = RZero THEN RZero
                      ELSE Percent(RDiv(r.net_profit, r.effective_revenue))

\* C8 amended: with a non-zero denominator the margins are the quotients
\* above; with a zero denominator the denominator is replaced by 1, so the
\* margin is 100 x the numerator (gross_revenue - total_cost, respectively
\* net_profit), which is 0 only when the numerator is 0 as well.
MarginClampedDenominator ==
    SummaryReturned =>
        \A k \in DOMAIN product_summary_df :
            LET r == product_summary_df[k]
            IN  /\ r.gross_margin_pct =
                      IF r.gross_revenue = RZero
                      THEN Percent(RSub(r.gross_revenue, r.total_cost))
                      ELSE Percent(RDiv(RSub(r.gross_revenue, r.total_cost),
                                        r.gross_revenue))
                /\ r.net_margin_pct =
                      IF r.effective_revenue = RZero
                      THEN Percent(r.net_profit)
                      ELSE Percent(RDiv(r.net_profit, r.effective_revenue))

\* the give-away p2 with 100 units (revenue 0, cost 5000) next to p1
MarginClampedDenominatorWitness ==
    /\ "build_campaign_forecast" \in returned
    /\ Len(product_summary_df) = 2
    /\ \E k \in DOMAIN product_summary_df :
          /\ product_summary_df[k].gross_revenue = RZero
          /\ product_summary_df[k].total_cost = RInt(5000)
          /\ product_summary_df[k].gross_margin_pct = RInt(-500000)
    /\ \E k \in DOMAIN product_summary_df :
          /\ product_summary_df[k].gross_revenue = RInt(200000)
          /\ product_summary_df[k].gross_margin_pct = Rat(83, 2)

\* build_scenario_forecast on p1 with its price overridden to 0 and its
\* cost to 900, 100 units: revenue 0, cost 90000, gross margin -9000000
ScenarioMarginClamped ==
    /\ "build_scenario_forecast" \in returned
    /\ \E k \in DOMAIN product_summary_df :
          /\ product_summary_df[k].product_id = Pid1
          /\ product_summary_df[k].gross_revenue = RZero
          /\ product_summary_df[k].effective_revenue = RZero
          /\ product_summary_df[k].total_cost = RInt(90000)
          /\ product_summary_df[k].gross_margin_pct = RInt(-9000000)
          /\ product_summary_df[k].net_margin_pct = RInt(-9000000)

\* C9: exactly one monthly row per (catalogue product in quantities,
\* campaign month); in each row qty = total_qty x the month's weight,
\* gross_revenue = price x qty, effective_revenue =
\* price x (1 - discount_rate) x (1 - return_rate) x qty, total_cost =
\* (manufacturing + packaging + shipping + marketing) x qty and
\* net_profit = effective_revenue - total_cost.
MonthlyRowEconomics ==
    "build_campaign_forecast" \in returned =>
        /\ Len(monthly_df) = Cardinality(KnownItems) * Len(months)
        /\ \A i \in KnownItems : \A j \in DOMAIN months :
              Cardinality({k \in DOMAIN monthly_df :
                              /\ monthly_df[k].product_id = quantities[i][1]
                              /\ monthly_df[k].month = months[j]}) = 1
        /\ \A k \in DOMAIN monthly_df :
              LET r == monthly_df[k]
                  p == CatalogueProduct(r.product_id)
                  total == Get(quantities, r.product_id)
              IN  /\ r.qty = RMul(total, pid_weights[r.product_id][r.month])
                  /\ r.gross_revenue = RMul(p.price_bdt, r.qty)
                  /\ r.effective_revenue =
                        RMul(RMul(RMul(p.price_bdt,
                                       RSub(ROne, p.discount_rate)),
                                  RSub(ROne, p.return_rate)),
                             r.qty)
                  /\ r.total_cost =
                        RMul(RAdd(RAdd(p.manufacturing_cost_bdt,
                                       p.packaging_cost_bdt),
                                  RAdd(p.shipping_cost_bdt,
                                       p.marketing_cost_bdt)),
                             r.qty)
                  /\ r.net_profit = RSub(r.effective_revenue, r.total_cost)

\* price 2000, discount 10 %, return 5 %, 100 units over 2 Uniform months:
\* 50 units and effective revenue 85500 in each month, 171000 in total
MonthlyRowEconomicsWitness ==
    /\ "campaign_totals" \in returned
    /\ mode = "Uniform"
    /\ Len(months) = 2
    /\ Len(monthly_df) = 2
    /\ \A k \in DOMAIN monthly_df :
          /\ monthly_df[k].product_id = Pid1
          /\ monthly_df[k].qty = RInt(50)
          /\ monthly_df[k].effective_price = RInt(1710)
          /\ monthly_df[k].effective_revenue = RInt(85500)
    /\ totals.val.effective_revenue = RInt(171000)

-----------------------------------------------------------------------------
(* Claims about the OPEX expander *)

\* the month index of a well-formed label "YYYY-MM"
LabelIndex(l) == ParseInt(SubSeq(l, 1, 4)) * 12 + ParseInt(SubSeq(l, 6, 7)) - 1

\* start_month <= m <= end_month in calendar order, a missing end_month
\* being open-ended
InWindow(item, m) ==
    /\ LabelIndex(item.start_month) <= LabelIndex(m)
    /\ IsNone(item.end_month) \/ LabelIndex(m) <= LabelIndex(item.end_month.val)

CampaignLabels ==
    LET lo == EarlierDate(start_date, end_date)
        hi == LaterDate(start_date, end_date)
    IN  {Label(YM(k).year, YM(k).month) : k \in MonthIndex(lo)..MonthIndex(hi)}

RowsOf(item, m) ==
    {k \in DOMAIN opex_df :
        opex_df[k].opex_id = item.id /\ opex_df[k].month = m}

\* C10: for a recurring item there is a row for month m, exactly one and
\* carrying the item's cost, if and only if m is a campaign month and
\* start_month <= m <= end_month (open-ended without end_month); an item
\* without end_month that starts before the campaign has one row per
\* campaign month.
RecurringOpexRows ==
    "expand_opex_for_campaign" \in returned =>
        \A i \in DOMAIN opex_items :
            LET item == opex_items[i]
            IN  ~item.is_one_time =>
                /\ \A m \in OpexLabels \cup CampaignLabels :
                      /\ RowsOf(item, m) # {}
                            <=> (m \in CampaignLabels /\ InWindow(item, m))
                      /\ Cardinality(RowsOf(item, m)) <= 1
                      /\ \A k \in RowsOf(item, m) :
                            opex_df[k].cost_bdt = item.cost_bdt
                /\ \A k \in DOMAIN opex_df :
                      opex_df[k].opex_id = item.id =>
                          opex_df[k].month \in CampaignLabels
                /\ (IsNone(item.end_month)
                    /\ \A m \in CampaignLabels :
                          LabelIndex(item.start_month) < LabelIndex(m)) =>
                      Cardinality({k \in DOMAIN opex_df :
                                      opex_df[k].opex_id = item.id})
                          = Cardinality(CampaignLabels)

\* a recurring item without end_month that starts the month before a
\* three-month campaign: three rows of cost 500
RecurringOpexRowsWitness ==
    /\ "expand_opex_for_campaign" \in returned
    /\ Len(months) = 3
    /\ Len(opex_items) = 1
    /\ ~opex_items[1].is_one_time
    /\ IsNone(opex_items[1].end_month)
    /\ opex_items[1].start_month = WindowLabel(-1)
    /\ Len(opex_df) = 3
    /\ \A k \in DOMAIN opex_df :
          opex_df[k].month = months[k] /\ opex_df[k].cost_bdt = RInt(500)

\* the rows of an item, in any month
ItemRowsOf(item) == {k \in DOMAIN opex_df : opex_df[k].opex_id = item.id}

\* C11: a one-time item has at most one row; it has exactly one, at its
\* start_month, when start_month is a campaign month and is not after
\* end_month, and none otherwise; it has no row in any other month.
OneTimeOpexRows ==
    "expand_opex_for_campaign" \in returned =>
        \A i \in DOMAIN opex_items :
            LET item == opex_items[i]
                due == /\ item.start_month \in CampaignLabels
                       /\ \/ IsNone(item.end_month)
                          \/ LabelIndex(item.start_month)
                                <= LabelIndex(item.end_month.val)
            IN  item.is_one_time =>
                /\ Cardinality(ItemRowsOf(item)) <= 1
                /\ due => Cardinality(ItemRowsOf(item)) = 1
                /\ ~due => ItemRowsOf(item) = {}
                /\ \A k \in ItemRowsOf(item) :
                      /\ opex_df[k].month = item.start_month
                      /\ opex_df[k].cost_bdt = item.cost_bdt

\* a one-time item starting in the first month of a three-month campaign,
\* its window open-ended: one row, in the first month
OneTimeOpexRowsWitness ==
    /\ "expand_opex_for_campaign" \in returned
    /\ Len(months) = 3
    /\ Len(opex_items) = 1
    /\ opex_items[1].is_one_time
    /\ IsNone(opex_items[1].end_month)
    /\ opex_items[1].start_month = months[1]
    /\ Len(opex_df) = 1
    /\ opex_df[1].month = months[1]

-----------------------------------------------------------------------------
(* Claims about the scenario engine *)

\* the value of field f in the override rows of product pid, None when no
\* row of pid sets it
OverrideOf(pid, f) ==
    LET set == {i \in DOMAIN scenario_product_overrides :
                   /\ scenario_product_overrides[i].product_id = pid
                   /\ ~IsNone(scenario_product_overrides[i][f])}
    IN  IF set = {} THEN None
        ELSE scenario_product_overrides[CHOOSE i \in set : TRUE][f]

ComponentCost(p) ==
    RAdd(RAdd(p.manufacturing_cost_bdt, p.packaging_cost_bdt),
         RAdd(p.shipping_cost_bdt, p.marketing_cost_bdt))

\* C12: apply_product_overrides yields one scenario product per catalogue
\* product; its price, discount rate, return rate and total unit cost are
\* each the override (discount and return rate divided by 100) when a row
\* of the product sets the field, 0 included, and the catalogue value
\* otherwise; a cost override is the total unit cost by itself; rows of
\* products outside the catalogue change nothing.
OverridesApplyPerField ==
    "build_scenario_forecast" \in returned =>
        /\ DOMAIN sp_map = {products[i].id : i \in DOMAIN products}
        /\ \A i \in DOMAIN products :
              LET p == products[i]
                  sp == sp_map[p.id]
                  price == OverrideOf(p.id, "price_override")
                  disc == OverrideOf(p.id, "discount_override")
                  ret == OverrideOf(p.id, "return_rate_override")
                  cost == OverrideOf(p.id, "cost_override")
              IN  /\ sp.id = p.id /\ sp.name = p.name
                  /\ sp.price_bdt =
                        IF IsNone(price) THEN p.price_bdt ELSE price.val
                  /\ sp.discount_rate =
                        IF IsNone(disc) THEN p.discount_rate
                        ELSE Rat(disc.val[1], disc.val[2] * 100)
                  /\ sp.return_rate =
                        IF IsNone(ret) THEN p.return_rate
                        ELSE Rat(ret.val[1], ret.val[2] * 100)
                  /\ scenario_total_unit_cost(sp) =
                        IF IsNone(cost) THEN ComponentCost(p) ELSE cost.val

\* p1 with a price override of 0 and a cost override of 900, its discount
\* not overridden: price 0, discount 10 %, total unit cost 900; p2, without
\* a row, keeps its catalogue values
OverridesApplyPerFieldWitness ==
    /\ "build_scenario_forecast" \in returned
    /\ Len(products) = 2
    /\ Len(scenario_product_overrides) = 1
    /\ scenario_product_overrides[1].product_id = Pid1
    /\ scenario_product_overrides[1].price_override = Some(RInt(0))
    /\ IsNone(scenario_product_overrides[1].discount_override)
    /\ scenario_product_overrides[1].cost_override = Some(RInt(900))
    /\ sp_map[Pid1].price_bdt = RZero
    /\ sp_map[Pid1].discount_rate = Rat(10, 100)
    /\ scenario_total_unit_cost(sp_map[Pid1]) = RInt(900)
    /\ sp_map[Pid2].price_bdt = Product2.price_bdt

\* The stored values of the base campaign are the rows the store returned
\* to the requests of the call: each table is read by a request of its own
\* (lines 215, 218, 221 and 223), and a save of another session may change
\* the store between two of them.
ReadTables ==
    <<responses.quantities, responses.month_weights,
      responses.product_month_weights, responses.sizes>>

\* the rows of the campaign that the store holds in the tables of the four
\* requests
HeldTables ==
    LET held(t) == SelectEq(db, t, "campaign_id", campaign.id)
    IN  <<held("campaign_quantities"), held("campaign_month_weights"),
          held("campaign_month_weights"), held("campaign_size_breakdown")>>

\* every row read is a row of the base campaign, and while no session has
\* saved, the rows read are the rows the store holds of the campaign
ReadsOfTheCampaign ==
    /\ \A t \in DOMAIN ReadTables : \A k \in DOMAIN ReadTables[t] :
          ReadTables[t][k].campaign_id = campaign.id
    /\ saved = <<>> => ReadTables = HeldTables

\* the total_qty stored for product pid in the base campaign, 0 when the
\* campaign has no row of it
StoredQty(pid) ==
    LET rows == SelectSeq(responses.quantities, LAMBDA r : r.product_id = pid)
    IN  IF rows = <<>> \/ IsNone(rows[1].total_qty) THEN RZero
        ELSE rows[1].total_qty.val

\* the quantity the scenario is to distribute for product pid
ScenarioQty(pid) ==
    IF IsNone(OverrideOf(pid, "qty_override")) THEN StoredQty(pid)
    ELSE OverrideOf(pid, "qty_override").val

MonthlyRowsOf(pid) == SelectSeq(monthly_df, LAMBDA r : r.product_id = pid)

\* C13: for every catalogue product the scenario distributes qty_override
\* when a row of the product sets it and the stored total_qty otherwise
\* (0 for a product the campaign does not hold): its monthly quantities sum
\* to that quantity, and the quantity of a month is that quantity times the
\* month's weight, a weight that does not depend on the quantity.
ScenarioQuantityOverride ==
    "build_scenario_forecast" \in returned =>
        /\ ReadsOfTheCampaign
        /\ \A i \in DOMAIN products :
               LET pid == products[i].id
                   rows == MonthlyRowsOf(pid)
               IN  /\ ColumnSum(rows, "qty") = ScenarioQty(pid)
                   /\ rows # <<>> =>
                         /\ Len(rows) = Len(months)
                         /\ RSum(ValuesOf(pid_weights[pid], months)) = ROne
                         /\ \A k \in DOMAIN rows :
                               /\ rows[k].month = months[k]
                               /\ rows[k].qty =
                                     RMul(ScenarioQty(pid),
                                          pid_weights[pid][months[k]])
                         /\ (distribution_mode_override = None
                             /\ campaign.distribution_mode # "Custom") =>
                               pid_weights[pid] = weights

\* 100 units read for p1, overridden to 50, two Uniform months: 25 units
\* in each month, while the store has come to hold 60 units of p1
ScenarioQuantityOverrideWitness ==
    /\ "build_scenario_forecast" \in returned
    /\ StoredQty(Pid1) = RInt(100)
    /\ fetch_campaign_products(db, campaign.id) = << <<Pid1, RInt(60)>> >>
    /\ OverrideOf(Pid1, "qty_override") = Some(RInt(50))
    /\ campaign.distribution_mode = "Uniform"
    /\ distribution_mode_override = None
    /\ Len(months) = 2
    /\ Len(MonthlyRowsOf(Pid1)) = 2
    /\ \A k \in 1..2 : MonthlyRowsOf(Pid1)[k].qty = RInt(25)

\* the curve of a mode over the months ms as the specification states it:
\* raw weights divided by their sum, Uniform for a Custom map without
\* positive weight and for a mode that is none of the four
RefCurve(ms, md, cw) ==
    LET n == Len(ms)
        known == md \in {"Uniform", "Front-loaded", "Back-loaded", "Custom"}
        total == IF known THEN RefRawSum(ms, n, md, cw) ELSE 0
    IN  [m \in Range(ms) |->
            LET i == CHOOSE j \in 1..n : ms[j] = m
            IN  IF total = 0 THEN Rat(1, n)
                ELSE Rat(RefRaw(ms, i, md, cw), total)]

\* the weights stored in the base campaign for product opid (None: the
\* legacy rows), as a map, or None when there is no such row
StoredWeights(opid) ==
    LET read == IF IsNone(opid) THEN responses.month_weights
                ELSE responses.product_month_weights
        rows == SelectSeq(read, LAMBDA r : r.product_id = opid)
    IN  IF rows = <<>> THEN None
        ELSE Some([m \in {rows[i].month_label : i \in DOMAIN rows} |->
                    rows[CHOOSE i \in DOMAIN rows :
                            rows[i].month_label = m].weight])

GivenMode ==
    IF distribution_mode_override \in {None, Some("")}
    THEN campaign.distribution_mode
    ELSE distribution_mode_override.val

\* the first available source of custom weights for product pid
FirstSource(pid) ==
    IF custom_weights_override # None
       /\ DOMAIN custom_weights_override.val # {}
    THEN custom_weights_override
    ELSE IF StoredWeights(Some(pid)) # None THEN StoredWeights(Some(pid))
    ELSE StoredWeights(None)

\* C14: with effective mode Custom (the mode override when given, else the
\* campaign's mode) the weights of a product are the Custom curve of the
\* first source present among the scenario's custom weights, the weights
\* stored for the product, the legacy weights of the campaign, and Uniform
\* when there is none; with another effective mode they are the curve of
\* that mode, whatever weights are stored or given.
ScenarioWeightPrecedence ==
    "build_scenario_forecast" \in returned =>
        /\ ReadsOfTheCampaign
        /\ \A pid \in DOMAIN pid_weights :
              pid_weights[pid] =
                  IF GivenMode = "Custom"
                  THEN RefCurve(months, "Custom", FirstSource(pid))
                  ELSE RefCurve(months, GivenMode, None)

\* stored mode Uniform overridden to Custom, scenario weights 1 : 2 given
\* while p1 has stored weights 1 : 3 and the campaign legacy weights 3 : 1:
\* both products follow the scenario weights
ScenarioWeightPrecedenceWitness ==
    /\ "build_scenario_forecast" \in returned
    /\ campaign.distribution_mode = "Uniform"
    /\ distribution_mode_override = Some("Custom")
    /\ custom_weights_override # None
    /\ StoredWeights(Some(Pid1)) # None
    /\ StoredWeights(None) # None
    /\ Len(months) = 2
    /\ \A pid \in {Pid1, Pid2} :
          /\ pid_weights[pid][months[1]] = Rat(1, 3)
          /\ pid_weights[pid][months[2]] = Rat(2, 3)

\* Custom mode without scenario weights; the request of line 218 was
\* answered before another session saved the months of p1 at 10 : 90 and
\* the request of line 221 after it: p1 follows the weights saved, p2 the
\* legacy weights 3 : 1
WeightsReadAcrossASave ==
    /\ "build_scenario_forecast" \in returned
    /\ GivenMode = "Custom"
    /\ IsNone(custom_weights_override)
    /\ responses.month_weights # responses.product_month_weights
    /\ StoredWeights(Some(Pid2)) = None
    /\ {Pid1, Pid2} \subseteq DOMAIN pid_weights
    /\ pid_weights[Pid1][months[1]] = Rat(1, 10)
    /\ pid_weights[Pid2][months[1]] = Rat(3, 4)

\* the size rows stored for product pid in the base campaign
StoredSizeRows(pid) ==
    SelectSeq(responses.sizes, LAMBDA r : r.product_id = pid)

\* the quantity stored for size sz of product pid, null counting as 0
StoredSizeQty(pid, sz) ==
    LET rows == SelectSeq(StoredSizeRows(pid), LAMBDA r : r.size = sz)
    IN  IF IsNone(rows[1].qty) THEN RZero ELSE rows[1].qty.val

StoredSizeSum(pid) ==
    RSum([i \in DOMAIN StoredSizeRows(pid) |->
            StoredSizeQty(pid, StoredSizeRows(pid)[i].size)])

ScenarioSizeRowsOf(pid) == SelectSeq(size_rows, LAMBDA r : r.product_id = pid)

\* C15: every size row of a product has the stored size quantity times
\* (scenario quantity / stored total_qty of the product); without a
\* quantity override the size rows keep their stored quantities.
SizeRowsScaleWithBaseQuantity ==
    "build_scenario_forecast" \in returned =>
        \A k \in DOMAIN size_rows :
            LET r == size_rows[k]
                pid == r.product_id
            IN  /\ StoredQty(pid) # RZero =>
                      r.qty = RMul(StoredSizeQty(pid, r.size),
                                   RDiv(ScenarioQty(pid), StoredQty(pid)))
                /\ IsNone(OverrideOf(pid, "qty_override")) =>
                      r.qty = StoredSizeQty(pid, r.size)

\* C16: when the stored sizes of a product have a positive sum, each of its
\* size rows has the stored size quantity times (scenario quantity / that
\* sum), so the rows sum to the scenario quantity and keep the proportions
\* of the split; when the stored sizes sum to zero, the rows of a product
\* that is forecast are emitted, one per size, with quantity 0.
SizeRowsScaleWithSizeSum ==
    "build_scenario_forecast" \in returned =>
        /\ ReadsOfTheCampaign
        /\ \A i \in DOMAIN products :
               LET pid == products[i].id
                   rows == ScenarioSizeRowsOf(pid)
                   sum == StoredSizeSum(pid)
               IN  /\ RLess(RZero, sum) =>
                         /\ ColumnSum(rows, "qty") = ScenarioQty(pid)
                         /\ \A k \in DOMAIN rows :
                               rows[k].qty =
                                   RMul(StoredSizeQty(pid, rows[k].size),
                                        RDiv(ScenarioQty(pid), sum))
                   /\ sum = RZero =>
                         /\ \A k \in DOMAIN rows : rows[k].qty = RZero
                         /\ MonthlyRowsOf(pid) # <<>> =>
                               Len(rows) = Len(StoredSizeRows(pid))
                   /\ MonthlyRowsOf(pid) # <<>> =>
                         \A k \in DOMAIN StoredSizeRows(pid) :
                             /\ k \in DOMAIN rows
                             /\ rows[k].size = StoredSizeRows(pid)[k].size

\* sizes 30 + 30 stored for p1 against a quantity of 100 overridden to 50:
\* two size rows of 25 each
SizeRowsScaleWithSizeSumWitness ==
    /\ "build_scenario_forecast" \in returned
    /\ StoredQty(Pid1) = RInt(100)
    /\ OverrideOf(Pid1, "qty_override") = Some(RInt(50))
    /\ StoredSizeSum(Pid1) = RInt(60)
    /\ Len(ScenarioSizeRowsOf(Pid1)) = 2
    /\ \A k \in 1..2 : ScenarioSizeRowsOf(Pid1)[k].qty = RInt(25)

\* 100 units of p1 were read before another session saved 60 units and the
\* sizes 20 + 40, and the sizes were read after it: the size rows are
\* 100 x 20 / 60 and 100 x 40 / 60
SizesReadAfterASave ==
    /\ "build_scenario_forecast" \in returned
    /\ StoredQty(Pid1) = RInt(100)
    /\ IsNone(OverrideOf(Pid1, "qty_override"))
    /\ StoredSizeSum(Pid1) = RInt(60)
    /\ fetch_campaign_products(db, campaign.id) = << <<Pid1, RInt(60)>> >>
    /\ \E k \in DOMAIN size_rows :
          size_rows[k].size = "S" /\ size_rows[k].qty = Rat(100, 3)
    /\ \E k \in DOMAIN size_rows :
          size_rows[k].size = "M" /\ size_rows[k].qty = Rat(200, 3)

\* sizes stored as null and 0 for a product that is forecast: two size rows
\* of quantity 0
ZeroSizeSumReached ==
    /\ "build_scenario_forecast" \in returned
    /\ Len(StoredSizeRows(Pid1)) = 2
    /\ StoredSizeSum(Pid1) = RZero
    /\ ScenarioQty(Pid1) = RInt(50)
    /\ Len(ScenarioSizeRowsOf(Pid1)) = 2

-----------------------------------------------------------------------------
(* Claims about the OPEX of a scenario *)

\* the cost override of item id in the scenario's rows, None when no row
\* of the item sets it
OpexOverrideOf(id) ==
    LET set == {i \in DOMAIN scenario_opex_overrides :
                   /\ scenario_opex_overrides[i].opex_item_id = id
                   /\ ~IsNone(scenario_opex_overrides[i].cost_override)}
    IN  IF set = {} THEN None
        ELSE scenario_opex_overrides[CHOOSE i \in set : TRUE].cost_override

\* the number of campaign months in the window of a recurring item, an
\* unset start or end being the first or last campaign month
MonthsInWindow(it) ==
    LET lo == IF IsNone(it.start_month) THEN LabelIndex(months[1])
              ELSE LabelIndex(it.start_month.val)
        hi == IF IsNone(it.end_month) THEN LabelIndex(months[Len(months)])
              ELSE LabelIndex(it.end_month.val)
    IN  Cardinality({k \in DOMAIN months :
                        lo <= LabelIndex(months[k])
                        /\ LabelIndex(months[k]) <= hi})

RefItemOpex(it) ==
    LET cost == IF IsNone(OpexOverrideOf(it.id)) THEN it.cost_bdt
                ELSE OpexOverrideOf(it.id).val
    IN  IF it.is_one_time THEN cost
        ELSE RMul(cost, RInt(MonthsInWindow(it)))

\* the library items the repository holds as linked to the base campaign:
\* those of the ids that fetch_campaign_opex_links returns
LinkedItems ==
    LET linked == Range(fetch_campaign_opex_links(db, campaign.id))
    IN  SelectSeq(db["opex_items"], LAMBDA it : it.id \in linked)

\* C17: opex_total is the sum, over the library items linked to the base
\* campaign, of the effective cost once for a one-time item and once per
\* campaign month m with start <= m <= end for a recurring item (an unset
\* start or end being the first or last campaign month); the effective
\* cost is the scenario's cost override when a row of the item sets it and
\* the stored cost otherwise; overrides of other items add nothing.
ScenarioOpexTotal ==
    "build_scenario_forecast" \in returned =>
        totals.val.opex_total =
            RSum([i \in DOMAIN LinkedItems |-> RefItemOpex(LinkedItems[i])])

\* C18: once save_campaign_opex_links has stored the items attached to the
\* campaign, build_scenario_forecast reads exactly those items as the
\* campaign's linked items, so that each of them is counted in opex_total.
SavedLinksAreRead ==
    ("save_campaign_opex_links" \in returned
        /\ "build_scenario_forecast" \in returned) =>
        /\ {lib_items[i].id : i \in DOMAIN lib_items} = Range(opex_ids)
        /\ totals.val.opex_total =
              RSum([i \in DOMAIN lib_items |-> RefItemOpex(lib_items[i])])

\* C19: net_profit_after_opex = net_profit_variable - opex_total, where
\* net_profit_variable is the sum of net_profit over the monthly rows, 0
\* when there are none; with an empty monthly table
\* net_profit_after_opex = -opex_total.
ProfitAfterOpex ==
    "build_scenario_forecast" \in returned =>
        LET t == totals.val
        IN  /\ t.net_profit_variable =
                  RSum([k \in DOMAIN monthly_df |-> monthly_df[k].net_profit])
            /\ t.net_profit_after_opex =
                  RSub(t.net_profit_variable, t.opex_total)
            /\ monthly_df = <<>> =>
                  /\ t.net_profit_variable = RZero
                  /\ t.net_profit_after_opex = RSub(RZero, t.opex_total)

\* a campaign without quantities whose linked one-time item costs 500:
\* no monthly rows, opex_total 500, net_profit_after_opex -500
ProfitAfterOpexWitness ==
    /\ "build_scenario_forecast" \in returned
    /\ monthly_df = <<>>
    /\ totals.val.opex_total = RInt(500)
    /\ totals.val.net_profit_after_opex = RInt(-500)

\* both products forecast and OPEX charged: the profit after OPEX is the
\* variable profit less the OPEX
ProfitAfterOpexReached ==
    /\ "build_scenario_forecast" \in returned
    /\ monthly_df # <<>>
    /\ RLess(RZero, totals.val.opex_total)
    /\ RLess(totals.val.net_profit_after_opex, totals.val.net_profit_variable)

-----------------------------------------------------------------------------
(* C20: duplicate_scenario called with a scenario id the store does not hold
   ends at its first request: unless that request itself raises, with the
   error "Scenario not found"; it returns no scenario, and the store after
   the call is the store before it: no scenario, no product, OPEX or FX
   override row and no campaign link is created. *)

DuplicateMissingLeavesStore ==
    [][\A sid \in GeneratedIds \cup {MissingId} :
          (sid \notin ExistingIds /\ DuplicateScenarioOf(sid))
             => /\ running'.at = 0
                /\ error' # Some(RequestError)
                      => error' = Some("Scenario not found")
                /\ new_s' = None
                /\ db' = db]_vars

\* a missing id was duplicated on a store that holds a scenario with overrides
DuplicateMissingLeavesStoreWitness ==
    /\ error = Some("Scenario not found")
    /\ running.fn = "duplicate_scenario" /\ running.at = 0
    /\ scenario_id \notin ExistingIds
    /\ new_name = "Copy"
    /\ db["scenarios"] # <<>>
    /\ db["scenario_products"] # <<>>
    /\ db["scenario_fx"] # <<>>
    /\ db["scenario_campaign_links"] # <<>>

-----------------------------------------------------------------------------
(* C21: delete_scenario called with a scenario id the store does not hold
   ends, unless its request itself raises, with the error "Scenario not
   found", as duplicate_scenario does. *)

DeleteMissingRaisesNotFound ==
    [][\A sid \in GeneratedIds \cup {MissingId} :
          (sid \notin ExistingIds /\ DeleteScenarioOf(sid))
             => (error' # Some(RequestError)
                    => error' = Some("Scenario not found"))]_vars

-----------------------------------------------------------------------------
(* C22: in every state that create_scenario, link_scenario_to_campaign,
   duplicate_scenario and delete_scenario reach, between their requests and
   after a request that raised included, every scenario has at most one
   campaign link; when link_scenario_to_campaign(s, c) returns, the only
   link of s is to c; and every request of it, answered or not, leaves every
   other scenario with the links it had. *)

LinksOf(d, sid) == fetch_scenario_campaign_links(d, sid)

\* the call in progress returns with this step, without an exception
ReturnsNormally == running'.at = 0 /\ error' = None

OneLinkPerScenario ==
    /\ [](\A sid \in GeneratedIds : Len(LinksOf(db, sid)) <= 1)
    /\ [][\A sid \in GeneratedIds, c \in LinkedCampaigns :
            LinkScenarioTo(sid, c)
               => /\ ReturnsNormally =>
                        LinksOf(db', sid)
                           = <<[scenario_id |-> sid, campaign_id |-> c]>>
                  /\ \A other \in GeneratedIds \ {sid} :
                        LinksOf(db', other) = LinksOf(db, other)]_vars

\* two scenarios of the store are linked, to different campaigns, and the
\* last call linked one of them and returned
OneLinkPerScenarioWitness ==
    /\ ExistingIds = {ScenarioIdOf(1), ScenarioIdOf(2)}
    /\ running.fn = "link_scenario_to_campaign" /\ running.at = 0
    /\ scenario_id = ScenarioIdOf(1)
    /\ error = None
    /\ LinksOf(db, ScenarioIdOf(1))
          = <<[scenario_id |-> ScenarioIdOf(1), campaign_id |-> "c2"]>>
    /\ LinksOf(db, ScenarioIdOf(2))
          = <<[scenario_id |-> ScenarioIdOf(2), campaign_id |-> "c1"]>>

\* the insert of link_scenario_to_campaign (line 123) raised after its
\* delete (line 121) was answered: the scenario is left without a link
LinkLostReached ==
    /\ running.fn = "link_scenario_to_campaign" /\ running.at = 0
    /\ error = Some(RequestError)
    /\ scenario_id \in ExistingIds
    /\ LinksOf(db, scenario_id) = <<>>

-----------------------------------------------------------------------------
(* C23: when save_campaign_products(c, Q) with quantities >= 0 returns,
   whatever the table held, fetch_campaign_products(c) returns exactly the
   entries of Q with a quantity > 0, from one row per product: every product
   reads back the quantity saved (absent reads as 0) and no earlier row of c
   survives; and every request of the save, answered or not, leaves the rows
   of every other campaign as they were. *)

QuantityRowsOf(d, c) == SelectEq(d, "campaign_quantities", "campaign_id", c)

\* dict.get(pid, 0)
QtyIn(items, pid) == IF pid \in Keys(items) THEN Get(items, pid) ELSE RZero

PositiveEntries(qs) == {kv \in Range(qs) : RLess(RZero, kv[2])}

SavedQuantitiesReadBack ==
    [][\A c \in Campaigns, qs \in SavedQuantities :
          SaveCampaignProductsOf(c, qs)
             => LET got == fetch_campaign_products(db', c)
                IN  /\ ReturnsNormally =>
                          /\ Range(got) = PositiveEntries(qs)
                          /\ Len(QuantityRowsOf(db', c))
                                = Cardinality(PositiveEntries(qs))
                          /\ \A pid \in {Pid1, Pid2} :
                                QtyIn(got, pid) = QtyIn(qs, pid)
                    /\ \A other \in Campaigns \ {c} :
                          QuantityRowsOf(db', other) = QuantityRowsOf(db, other)
      ]_vars

\* c1 was saved with 50 of p1 and 0 of p2 while c2 holds rows, the save
\* returned, and p1 reads back alone
SavedQuantitiesReadBackWitness ==
    /\ saved_campaign_id = "c1"
    /\ saved = <<"save_campaign_products",
                << <<Pid1, RInt(50)>>, <<Pid2, RInt(0)>> >> >>
    /\ running.at = 0 /\ error = None
    /\ fetch_campaign_products(db, "c1") = << <<Pid1, RInt(50)>> >>
    /\ Len(QuantityRowsOf(db, "c2")) = 2

\* the insert of save_campaign_products (line 109) raised after its delete
\* (line 96) was answered: the campaign is left without quantities
QuantitiesLostReached ==
    /\ saved_campaign_id = "c1"
    /\ saved = <<"save_campaign_products", << <<Pid1, RInt(100)>> >> >>
    /\ running.at = 0 /\ error = Some(RequestError)
    /\ fetch_campaign_products(db, "c1") = <<>>
    /\ Len(QuantityRowsOf(db, "c2")) = 2

-----------------------------------------------------------------------------
(* C24: when save_product_month_weights(c, W) with weights >= 0 returns, the
   per-product weights stored for c are W: fetch_product_month_weights(c)
   returns W, whatever earlier saves stored. *)

\* a dict of dicts given by its items, as fetch_product_month_weights
\* returns it
DictOfDicts(wbp) ==
    [pid \in Keys(wbp) |->
        [m \in Keys(Get(wbp, pid)) |-> Get(Get(wbp, pid), m)]]

SavedProductWeightsReadBack ==
    [][\A wbp \in SavedProductWeights :
          (SaveProductMonthWeightsOf("c1", wbp) /\ ReturnsNormally)
             => fetch_product_month_weights(db', "c1") = DictOfDicts(wbp)
      ]_vars

-----------------------------------------------------------------------------
(* C30: the legacy rows (no product id) and the per-product rows of
   campaign_month_weights are kept apart.  Every request of
   save_month_weights, answered or not, leaves the per-product rows of every
   campaign as they were, and when the save returns fetch_month_weights
   returns the weights saved, whatever per-product rows the campaign has;
   every request of save_product_month_weights, answered or not, leaves the
   legacy rows of every campaign as they were, and when the save returns
   fetch_product_month_weights returns, for every product saved, the weights
   saved; neither fetch changes with a request of the other kind of save. *)

WeightRowsOf(d, c) == SelectEq(d, "campaign_month_weights", "campaign_id", c)
LegacyRowsOf(d, c) ==
    SelectSeq(WeightRowsOf(d, c), LAMBDA r : IsNone(r.product_id))
ProductRowsOf(d, c) ==
    SelectSeq(WeightRowsOf(d, c), LAMBDA r : ~IsNone(r.product_id))

DictOf(items) == [k \in Keys(items) |-> Get(items, k)]

WeightKindsKeptApart ==
    [][/\ \A ws \in SavedLegacyWeights :
            SaveMonthWeightsOf("c1", ws)
               => /\ ReturnsNormally =>
                        fetch_month_weights(db', "c1") = DictOf(ws)
                  /\ \A c \in Campaigns :
                        /\ ProductRowsOf(db', c) = ProductRowsOf(db, c)
                        /\ fetch_product_month_weights(db', c)
                              = fetch_product_month_weights(db, c)
       /\ \A wbp \in SavedProductWeights :
            SaveProductMonthWeightsOf("c1", wbp)
               => /\ ReturnsNormally =>
                        \A pid \in Keys(wbp) :
                            fetch_product_month_weights(db', "c1")[pid]
                               = DictOf(Get(wbp, pid))
                  /\ \A c \in Campaigns :
                        /\ LegacyRowsOf(db', c) = LegacyRowsOf(db, c)
                        /\ fetch_month_weights(db', c)
                              = fetch_month_weights(db, c)
      ]_vars

\* the legacy weights 3 : 1 were saved for c1 while it holds per-product
\* rows of p1 and p2 on the same months, and the save returned
WeightKindsKeptApartWitness ==
    /\ saved_campaign_id = "c1"
    /\ saved = <<"save_month_weights",
                << <<WindowLabel(0), 3>>, <<WindowLabel(1), 1>> >> >>
    /\ running.at = 0 /\ error = None
    /\ fetch_month_weights(db, "c1") = DictOf(saved[2])
    /\ DOMAIN fetch_product_month_weights(db, "c1") = {Pid1, Pid2}
    /\ Len(ProductRowsOf(db, "c1")) = 4

\* the insert of save_month_weights (line 167) raised after its delete
\* (line 154) was answered: the legacy weights are gone, the per-product
\* rows are the four they were
LegacyWeightsLostReached ==
    /\ saved_campaign_id = "c1"
    /\ saved[1] = "save_month_weights" /\ saved[2] # <<>>
    /\ running.at = 0 /\ error = Some(RequestError)
    /\ LegacyRowsOf(db, "c1") = <<>>
    /\ Len(ProductRowsOf(db, "c1")) = 4

-----------------------------------------------------------------------------
(* C26: validate_product_dict returns the empty list exactly when every
   required field is present and not empty, every price and cost is >= 0
   and return_rate and discount_rate are in [0, 1]; otherwise it returns
   the list that holds one message for every violation, and it raises
   nothing; the call leaves the dict it is given as it was. *)

HasValue(dct, f) ==
    /\ f \in DOMAIN dct
    /\ dct[f].tag # "none"
    /\ ~(dct[f].tag = "str" /\ dct[f].val = <<>>)

RequiredFields == {"name", "category", "price_bdt", "manufacturing_cost_bdt"}
AmountFields ==
    {"price_bdt", "manufacturing_cost_bdt", "packaging_cost_bdt",
     "shipping_cost_bdt", "marketing_cost_bdt"}
RateFields == {"return_rate", "discount_rate"}

\* the value of the field is a number >= 0; no value counts as 0
AtLeastZero(dct, f) ==
    LET v == FloatOrZero(dct, f)
    IN  \/ v.kind = "finite" /\ ~RLess(v.val, RZero)
        \/ v.kind = "inf" /\ ~v.negative

\* the value of the field is a number in [0, 1]
InUnitInterval(dct, f) ==
    LET v == FloatOrZero(dct, f)
    IN  v.kind = "finite" /\ ~RLess(v.val, RZero) /\ ~RLess(ROne, v.val)

ValidProduct(dct) ==
    /\ \A f \in RequiredFields : HasValue(dct, f)
    /\ \A f \in AmountFields : AtLeastZero(dct, f)
    /\ \A f \in RateFields : InUnitInterval(dct, f)

ValidationListsViolations ==
    /\ []("validate_product_dict" \in returned
            => /\ error = None
               /\ (errors = <<>>) <=> ValidProduct(product_dict)
               /\ \A f \in RequiredFields :
                     ~HasValue(product_dict, f)
                        <=> MissingMessage(f) \in Range(errors))
    /\ [][ValidateProductDict => product_dict' = product_dict]_vars

-----------------------------------------------------------------------------
(* C29: the product summary of build_campaign_forecast has exactly one row
   for every product of quantities that is in the catalogue, also for a
   total_qty of 0, and the campaign_qty of that row is the product's
   total_qty, in every distribution mode and for every custom weight map. *)

SummaryRowsOf(pid) ==
    {k \in DOMAIN product_summary_df : product_summary_df[k].product_id = pid}

SummaryQtyIsTotalQty ==
    "build_campaign_forecast" \in returned =>
        /\ Len(product_summary_df) = Cardinality(KnownItems)
        /\ \A i \in KnownItems :
              /\ Cardinality(SummaryRowsOf(quantities[i][1])) = 1
              /\ \A k \in SummaryRowsOf(quantities[i][1]) :
                    product_summary_df[k].campaign_qty = quantities[i][2]

\* Custom mode on several months with the 3 : 1 campaign-level map and own
\* maps: p1 with 100 units spread 1 : 3, p2 with 0 units
SummaryQtyIsTotalQtyWitness ==
    /\ "build_campaign_forecast" \in returned
    /\ mode = "Custom"
    /\ Len(months) > 1
    /\ ~IsNone(custom_weights)
    /\ ~IsNone(per_product_month_weights)
    /\ DOMAIN per_product_month_weights.val = PoolIds
    /\ CatalogueIds = PoolIds
    /\ quantities = << <<Pid2, RInt(0)>>, <<Pid1, RInt(100)>> >>
    /\ Len(product_summary_df) = 2
    /\ product_summary_df[1].campaign_qty = RInt(100)
    /\ product_summary_df[2].campaign_qty = RZero

-----------------------------------------------------------------------------
(* C27: without product overrides and without a mode or weight override,
   build_scenario_forecast gives, for every product and month, the qty,
   gross_revenue, effective_revenue, total_cost and net_profit that
   build_campaign_forecast gives when called with the campaign's stored
   quantities, stored mode, legacy weights and per-product weights, in
   every distribution mode. *)

\* the five compared columns of the rows, by product and month
Cells(rows) ==
    {<<rows[k].product_id, rows[k].month, rows[k].qty,
       rows[k].gross_revenue, rows[k].effective_revenue, rows[k].total_cost,
       rows[k].net_profit>> : k \in DOMAIN rows}

NoProductOrWeightOverrides ==
    /\ scenario_product_overrides = <<>>
    /\ IsNone(distribution_mode_override)
    /\ IsNone(custom_weights_override)

\* build_campaign_forecast was called with the campaign's range and mode
\* and with the quantities, legacy weights and per-product weights of the
\* rows that the store returns to the requests of build_scenario_forecast
ForecastOfStoredCampaign ==
    /\ "build_campaign_forecast" \in returned
    /\ start_date = FromIsoFormat(campaign.start_date)
    /\ end_date = FromIsoFormat(campaign.end_date)
    /\ mode = campaign.distribution_mode
    /\ quantities = QuantitiesOfRows(responses'.quantities, <<>>)
    /\ custom_weights = Some(LegacyWeightsOfRows(responses'.month_weights))
    /\ per_product_month_weights =
          Some(ProductWeightsOfRows(responses'.product_month_weights))

ScenarioWithoutOverridesIsCampaign ==
    [][(/\ BuildScenarioForecast
        /\ "build_scenario_forecast" \in returned'
        /\ NoProductOrWeightOverrides
        /\ ForecastOfStoredCampaign)
          => /\ ReadsOfTheCampaign'
             /\ Len(monthly_df') = Len(monthly_df)
             /\ Cells(monthly_df') = Cells(monthly_df)
      ]_vars

\* Custom mode over several months, legacy rows 3 : 1, own rows of p1 only,
\* both products sold: p1 follows its own rows, p2 the legacy rows
ScenarioWithoutOverridesIsCampaignWitness ==
    /\ pc = <<>>
    /\ {"build_campaign_forecast", "build_scenario_forecast"} \subseteq returned
    /\ NoProductOrWeightOverrides
    /\ campaign.distribution_mode = "Custom"
    /\ Len(months) > 1
    /\ CatalogueIds = PoolIds
    /\ quantities = BothAt100
    /\ DOMAIN fetch_month_weights(db, campaign.id) # {}
    /\ DOMAIN fetch_product_month_weights(db, campaign.id) = {Pid1}
    /\ pid_weights[Pid1][months[1]] = <<1, 4>>
    /\ pid_weights[Pid2][months[1]] = <<3, 4>>
    /\ Len(monthly_df) = 2 * Len(months)

-----------------------------------------------------------------------------
(* C28: without OPEX overrides, the opex_total of build_scenario_forecast
   against the sum of cost_bdt over the rows of expand_opex_for_campaign for
   the same linked items and the same campaign range. *)

\* both computations ran on the same linked items, without overrides
SameLinkedItems ==
    /\ "expand_opex_for_campaign" \in returned
    /\ "build_scenario_forecast" \in returned
    /\ scenario_opex_overrides = <<>>
    /\ opex_items = rows_to_opex_items(lib_items)
    /\ start_date = FromIsoFormat(campaign.start_date)
    /\ end_date = FromIsoFormat(campaign.end_date)

ExpandedCost == ColumnSum(opex_df, "cost_bdt")

Undated(item) ==
    /\ item.is_one_time
    /\ ~ (/\ item.start_month \in Range(months)
          /\ \/ IsNone(item.end_month)
             \/ LabelIndex(item.start_month)
                   <= LabelIndex(item.end_month.val))

UndatedCost ==
    LET undated == SelectSeq(opex_items, Undated)
    IN  RSum([i \in DOMAIN undated |-> undated[i].cost_bdt])

OpexTotalsAgreeReached ==
    /\ SameLinkedItems
    /\ Len(months) > 1
    /\ \E i \in DOMAIN opex_items :
          opex_items[i].is_one_time /\ ~Undated(opex_items[i])
    /\ \E i \in DOMAIN opex_items : ~opex_items[i].is_one_time
    /\ RLess(RZero, ExpandedCost)
    /\ totals.val.opex_total = ExpandedCost

=============================================================================
